---- MODULE Spec2Model ----
(***************************************************************************)
(* A model of the email categorizer (src/src/email_categorizer.py) and of  *)
(* the batch loop of its web front-end (src/web_gui.py).                   *)
(*                                                                         *)
(* Text is a sequence of one-character strings, so that lower(), strip(),  *)
(* split('\n'), slicing and the substring test `word in text` are computed *)
(* character by character, as Python computes them.                        *)
(***************************************************************************)
EXTENDS Integers, Sequences, FiniteSets, TLC

VARIABLES
    content,        \* categorize_email: the text passed in
    category,       \* categorize_email: the value returned ("pending" before the call)
    file,           \* process_single_email: the file the path names
    outcome,        \* process_single_email: how the call ended
    fs,             \* batch: the input directory: its listing and the file of each entry
    pc,             \* the position of the call or of the handler
    response,       \* batch: what the handler has answered, "none" before it answers
    email_files,    \* batch: the paths kept by the ".txt" filter
    idx,            \* batch: number of paths the loop has taken
    calls,          \* batch: the paths handed to process_single_email so far
    email_data,     \* the list of ProcessedEmail records
    processed_count,\* batch: the success counter
    stats,          \* generate_statistics: the value returned, None before the call
    report,         \* save_report_to_csv: the destination, its rows and how the call ended
    disk,           \* organize_emails: the entry at each path of the file system
    superuser,      \* organize_emails: the process may write files that are read-only
    org,            \* organize_emails: the locals of the call and how it ended
    form,           \* web handler: the 'report' and 'organize' boxes of the request
    args,           \* main: the namespace parse_arguments returns
    run             \* main: the result of the self-tests and how the run ended

classifyVars == <<content, category>>
fileVars     == <<file, outcome>>
batchVars    == <<fs, response, email_files, idx, calls, processed_count>>
statsVars    == <<email_data, stats>>
organizeVars == <<disk, superuser, org>>
mainVars     == <<args, run>>
laterVars    == <<report, organizeVars, form, mainVars>>
vars == <<content, category, file, outcome, fs, pc, response, email_files, idx,
          calls, email_data, processed_count, stats, report, disk, superuser, org,
          form, args, run>>

(***************************************************************************)
(* Characters and the str methods the program uses                         *)
(***************************************************************************)
\* the lower-case letter of each upper-case letter
LowerOf ==
    [A |-> "a", B |-> "b", C |-> "c", D |-> "d", E |-> "e", F |-> "f", G |-> "g",
     H |-> "h", I |-> "i", J |-> "j", K |-> "k", L |-> "l", M |-> "m", N |-> "n",
     O |-> "o", P |-> "p", Q |-> "q", R |-> "r", S |-> "s", T |-> "t", U |-> "u",
     V |-> "v", W |-> "w", X |-> "x", Y |-> "y", Z |-> "z"]

\* str.lower() on one character
lower_char(c) == IF c \in DOMAIN LowerOf THEN LowerOf[c] ELSE c

\* str.lower()
\* a lower() that leaves its argument as it is
lower_identity(s) == s

lower(s) == [i \in 1..Len(s) |-> lower_char(s[i])]

\* the characters str.strip() and the truth test of a stripped string treat as blank
IsSpace(c) == c \in {" ", "\t", "\n", "\r"}

\* s[:n]
Prefix(s, n) == SubSeq(s, 1, IF n < Len(s) THEN n ELSE Len(s))

\* s[n:]
Suffix(s, n) == SubSeq(s, n + 1, Len(s))

\* str.strip()
strip(s) ==
    LET keep == {i \in 1..Len(s) : ~IsSpace(s[i])}
    IN  IF keep = {} THEN <<>>
        ELSE LET first == CHOOSE i \in keep : \A j \in keep : i <= j
                 last  == CHOOSE i \in keep : \A j \in keep : j <= i
             IN  SubSeq(s, first, last)

\* str.startswith(p)
startswith(s, p) == Len(s) >= Len(p) /\ SubSeq(s, 1, Len(p)) = p

\* str.endswith(p)
endswith(s, p) == Len(s) >= Len(p) /\ SubSeq(s, Len(s) - Len(p) + 1, Len(s)) = p

\* `word in text` for a non-empty word
Contains(text, word) ==
    \E i \in 1..(Len(text) - Len(word) + 1) : SubSeq(text, i, i + Len(word) - 1) = word

\* str.split('\n'): the pieces between line feeds, empty pieces kept
RECURSIVE split(_)
split(s) ==
    LET nl == {i \in 1..Len(s) : s[i] = "\n"}
    IN  IF nl = {} THEN <<s>>
        ELSE LET k == CHOOSE i \in nl : \A j \in nl : i <= j
             IN  <<SubSeq(s, 1, k - 1)>> \o split(SubSeq(s, k + 1, Len(s)))

\* the texts made of at most n pieces of the set S, put one after the other
RECURSIVE TextsOf(_, _)
TextsOf(S, n) ==
    IF n = 0 THEN {<<>>}
    ELSE LET shorter == TextsOf(S, n - 1)
         IN  shorter \cup {t \o piece : t \in shorter, piece \in S}

\* every sequence of at most n elements of the set S
SeqsUpTo(S, n) == UNION {[1..k -> S] : k \in 0..n}

(***************************************************************************)
(* categorize_email                                                        *)
(***************************************************************************)
\* the keyword lists of the if/elif chain, in the order the chain tests them
DogWords       == << <<"d","o","g">>, <<"d","o","g","s">>, <<"p","u","p","p","y">>,
                     <<"p","u","p","p","i","e","s">> >>
CatWords       == << <<"c","a","t">>, <<"c","a","t","s">>, <<"k","i","t","t","e","n">>,
                     <<"k","i","t","t","e","n","s">> >>
SmallWords     == << <<"r","a","b","b","i","t">>, <<"g","u","i","n","e","a"," ","p","i","g">>,
                     <<"h","a","m","s","t","e","r">>,
                     <<"s","m","a","l","l"," ","a","n","i","m","a","l">> >>
VolunteerWords == << <<"v","o","l","u","n","t","e","e","r">>, <<"c","u","d","d","l","e">>,
                     <<"s","o","c","i","a","l","i","z","e">>, <<"h","e","l","p">> >>
EventWords     == << <<"e","v","e","n","t">>, <<"o","u","t","r","e","a","c","h">>,
                     <<"c","o","m","m","u","n","i","t","y">>,
                     <<"f","e","s","t","i","v","a","l">> >>

\* the keywords the CATEGORIES table adds to the lists above; nothing reads the table
TableDogWords  == DogWords \o << <<"c","a","n","i","n","e">>, <<"h","o","u","n","d">> >>
TableCatWords  == CatWords \o << <<"f","e","l","i","n","e">> >>

\* any(word in content_lower for word in words)
any_word_in(words, text) == \E k \in 1..Len(words) : Contains(text, words[k])

\* a categorize_email that consults the CATEGORIES table for the first two tests
categorize_email_table(text) ==
    LET content_lower == lower(text)
    IN  IF any_word_in(TableDogWords, content_lower) THEN "DOG_FOSTER"
        ELSE IF any_word_in(TableCatWords, content_lower) THEN "CAT_FOSTER"
        ELSE IF any_word_in(SmallWords, content_lower) THEN "SMALL_ANIMAL"
        ELSE IF any_word_in(VolunteerWords, content_lower) THEN "VOLUNTEER"
        ELSE IF any_word_in(EventWords, content_lower) THEN "EVENTS"
        ELSE "GENERAL_INQUIRY"

categorize_email(text) ==
    LET content_lower == lower(text)
    IN  IF any_word_in(DogWords, content_lower) THEN "DOG_FOSTER"
        ELSE IF any_word_in(CatWords, content_lower) THEN "CAT_FOSTER"
        ELSE IF any_word_in(SmallWords, content_lower) THEN "SMALL_ANIMAL"
        ELSE IF any_word_in(VolunteerWords, content_lower) THEN "VOLUNTEER"
        ELSE IF any_word_in(EventWords, content_lower) THEN "EVENTS"
        ELSE "GENERAL_INQUIRY"

\* the pieces the classifier's input texts are put together from
ClassifyFragments ==
    { <<"D","o","g">>, <<"p","u","p","p","i","e","s">>,
      <<"c","a","t","s">>, <<"K","I","T","T","E","N">>, <<"o","p","e","n","?">>,
      <<"g","u","i","n","e","a">>, <<"p","i","g">>, <<" ">>,
      <<"h","e","l">>, <<"p">>, <<"E","v","e","n","t">>,
      <<"c","a","n","i","n","e">>, <<"h","o","u","n","d">>, <<"f","e","l","i","n","e">> }

\* the number of pieces of a classifier input
MaxClassifyFragments == 3

\* the classifier's inputs of at most n pieces
ClassifyTexts(n) == TextsOf(ClassifyFragments, n)

(***************************************************************************)
(* process_single_email                                                    *)
(***************************************************************************)
\* Python's None
None == [type |-> "NoneType"]

\* the truth value of a returned value: None and the empty dict are false
Truthy(v) == v # None /\ DOMAIN v # {}

\* 1024 * 1024, the size above which a file is reported as large
LargeFileBytes == 1048576

\* the length of 'subject:', cut from the front of a subject line
SubjectPrefixChars == 8

\* the number of characters kept of a first line used as the subject
FirstLineChars == 50

\* the number of characters of the subject kept before the ellipsis
SubjectChars == 60

Ellipsis  == <<".", ".", ".">>
NoSubject == <<"N","o"," ","s","u","b","j","e","c","t">>
SubjectTag == <<"s","u","b","j","e","c","t",":">>

(* A file as the calls of process_single_email see it:                     *)
(*   exists      os.path.exists(filepath)                                  *)
(*   is_dir      the path names a directory: open() raises IsADirectoryError*)
(*   open_error  "none", or the OSError subclass open() raises             *)
(*   bad_byte    the bytes hold a sequence that is no UTF-8: read() raises *)
(*   content     the text read() returns, up to trailing blanks            *)
(*   blanks      the number of blank characters that follow `content` in   *)
(*               the file. They are not materialised: strip() drops them   *)
(*               and no keyword ends in a blank, so no call reads them.    *)
(*   dir_size    what getsize returns for a directory                      *)
MissingFile(path) ==
    [path |-> path, exists |-> FALSE, is_dir |-> FALSE, open_error |-> "none",
     bad_byte |-> FALSE, content |-> <<>>, blanks |-> 0, dir_size |-> 0]

DirectoryFile(path, size) ==
    [path |-> path, exists |-> TRUE, is_dir |-> TRUE, open_error |-> "none",
     bad_byte |-> FALSE, content |-> <<>>, blanks |-> 0, dir_size |-> size]

RegularFile(path, text, blanks, bad, err) ==
    [path |-> path, exists |-> TRUE, is_dir |-> FALSE, open_error |-> err,
     bad_byte |-> bad, content |-> text, blanks |-> blanks, dir_size |-> 0]

\* os.path.getsize(filepath): one byte per character, one for the undecodable byte
getsize(f) ==
    IF f.is_dir THEN f.dir_size
    ELSE Len(f.content) + f.blanks + (IF f.bad_byte THEN 1 ELSE 0)

\* os.path.basename(filepath), for a path os.path.join(directory, name) made
basename(path) == path[Len(path)]

\* the exception classes that can reach the handlers, each with its base class
BaseClass(cls) ==
    CASE cls = "UnicodeDecodeError" -> "ValueError"
      [] cls = "ValueError"         -> "Exception"
      [] cls = "PermissionError"    -> "OSError"
      [] cls = "IsADirectoryError"  -> "OSError"
      [] cls = "FileExistsError"    -> "OSError"
      [] cls = "NotADirectoryError" -> "OSError"
      [] cls = "SameFileError"      -> "OSError"
      [] cls = "AttributeError"     -> "Exception"
      [] cls = "OSError"            -> "Exception"
      [] cls = "Exception"          -> "BaseException"
      [] OTHER                      -> "object"

\* isinstance(exc, cls) for an exception of class exc
RECURSIVE IsInstance(_, _)
IsInstance(exc, cls) ==
    \/ exc = cls
    \/ exc \notin {"BaseException", "object"} /\ IsInstance(BaseClass(exc), cls)

\* the except clauses of process_single_email without the final `except Exception`
ExceptClausesNamedOnly ==
    << [class |-> "UnicodeDecodeError", message |-> "Encoding error"],
       [class |-> "PermissionError",    message |-> "Permission denied"],
       [class |-> "IsADirectoryError",  message |-> "Is a directory"] >>

\* the except clauses of process_single_email, in order
ExceptClauses ==
    << [class |-> "UnicodeDecodeError", message |-> "Encoding error"],
       [class |-> "PermissionError",    message |-> "Permission denied"],
       [class |-> "IsADirectoryError",  message |-> "Is a directory"],
       [class |-> "Exception",          message |-> "Unexpected error"] >>

\* how a call or a block ends
Return(v, log)  == [kind |-> "return", value |-> v, exc |-> "none", log |-> log]
Raise(exc, log) == [kind |-> "raise", value |-> None, exc |-> exc, log |-> log]

\* with open(filepath, 'r', encoding='utf-8') as file: content = file.read()
open_and_read(f) ==
    IF f.is_dir THEN Raise("IsADirectoryError", <<>>)
    ELSE IF f.open_error # "none" THEN Raise(f.open_error, <<>>)
    ELSE IF f.bad_byte THEN Raise("UnicodeDecodeError", <<>>)
    ELSE Return(f.content, <<>>)

\* the subject line loop: the remainder of the first line that starts with 'subject:'
subject_line(text) ==
    LET lines == split(strip(text))
        hits  == {i \in 1..Len(lines) : startswith(lower(lines[i]), SubjectTag)}
    IN  IF hits = {} THEN NoSubject
        ELSE LET i == CHOOSE h \in hits : \A j \in hits : h <= j
             IN  strip(Suffix(lines[i], SubjectPrefixChars))

\* the stripped non-empty lines of the text
nonempty_lines(text) ==
    LET lines == split(strip(text))
    IN  SelectSeq([i \in 1..Len(lines) |-> strip(lines[i])], LAMBDA l : l # <<>>)

\* steps 7 and 8: the subject before truncation
extract_subject(text) ==
    LET subject == subject_line(text)
    IN  IF subject = NoSubject
        THEN LET lines == nonempty_lines(text)
             IN  IF lines # <<>> THEN Prefix(lines[1], FirstLineChars) ELSE subject
        ELSE subject

\* a truncation that appends the ellipsis without cutting
truncate_subject_uncut(subject) ==
    IF Len(subject) > SubjectChars THEN subject \o Ellipsis ELSE subject

\* subject[:60] + "..." if len(subject) > 60 else subject
truncate_subject(subject) ==
    IF Len(subject) > SubjectChars THEN Prefix(subject, SubjectChars) \o Ellipsis ELSE subject

\* a content test that does not strip
has_content_unstripped(text) == text # <<>>

\* the truth value of content.strip()
has_content(text) == strip(text) # <<>>

\* the body of the try block
try_body(f) ==
    IF ~f.exists THEN Return(None, << <<"warning", "File not found">> >>)
    ELSE
    LET file_size == getsize(f) IN
    IF file_size = 0 THEN Return(None, << <<"warning", "Empty file">> >>)
    ELSE
    LET log3 == IF file_size > LargeFileBytes THEN << <<"info", "Large file">> >> ELSE <<>>
        rd   == open_and_read(f)
    IN
    IF rd.kind = "raise" THEN Raise(rd.exc, log3)
    ELSE
    IF ~has_content(rd.value) THEN Return(None, log3 \o << <<"warning", "No content in">> >>)
    ELSE
    Return([filename   |-> basename(f.path),
            subject    |-> truncate_subject(extract_subject(rd.value)),
            category   |-> categorize_email(rd.value),
            filepath   |-> f.path,
            size_bytes |-> file_size],
           log3 \o << <<"info", "Processed">> >>)

\* the try block with the given except clauses: the first clause the exception is an
\* instance of logs an error and returns None; with none, the exception leaves the call
try_except(f, clauses) ==
    LET r    == try_body(f)
        hits == {k \in 1..Len(clauses) : IsInstance(r.exc, clauses[k].class)}
    IN  IF r.kind = "raise" /\ hits # {}
        THEN LET k == CHOOSE h \in hits : \A j \in hits : h <= j
             IN  Return(None, r.log \o << <<"error", clauses[k].message>> >>)
        ELSE r

process_single_email(f) == try_except(f, ExceptClauses)

(***************************************************************************)
(* generate_statistics                                                     *)
(***************************************************************************)
(* A dict is its keys in insertion order and the value of each key; a      *)
(* defaultdict reads a key it does not hold as the default.                *)
EmptyDict == [keys |-> <<>>, val |-> <<>>]

Has(d, k) == k \in DOMAIN d.val

Get(d, k, default) == IF Has(d, k) THEN d.val[k] ELSE default

Put(d, k, v) ==
    [keys |-> IF Has(d, k) THEN d.keys ELSE Append(d.keys, k),
     val  |-> [x \in DOMAIN d.val \cup {k} |-> IF x = k THEN v ELSE d.val[x]]]

\* the number of previews kept for a category
PreviewsKept == 3

\* 1024 * 1024, the divisor of total_size_mb
BytesPerMB == 1048576

(* A quotient a / b of the program's float arithmetic is kept as the exact *)
(* fraction: the rounding of the floating-point result is not modelled.    *)
Fraction(a, b) == [num |-> a, den |-> b]

\* the category labels in the order sorted() puts them
SortedLabels == <<"CAT_FOSTER", "DOG_FOSTER", "EVENTS", "GENERAL_INQUIRY",
                  "SMALL_ANIMAL", "VOLUNTEER">>

\* sorted(list(labels)) for a set of labels
sorted(labels) == SelectSeq(SortedLabels, LAMBDA c : c \in labels)

\* a count that is set to one whenever the category is met
count_up_reset(st, c) == Put(st, c, 1)

\* stats[category] += 1
count_up(st, c) == Put(st, c, Get(st, c, 0) + 1)

\* a preview list that drops its oldest entry to take the newest
keep_preview_latest(previews, c, preview) ==
    LET old == Get(previews, c, <<>>)
    IN  Put(previews, c, IF Len(old) < PreviewsKept THEN Append(old, preview)
                         ELSE Append(Tail(old), preview))

\* if len(category_previews[category]) < 3: category_previews[category].append(preview)
keep_preview(previews, c, preview) ==
    LET old == Get(previews, c, <<>>)
    IN  Put(previews, c, IF Len(old) < PreviewsKept THEN Append(old, preview) ELSE old)

\* the body of `for email in email_data`
collect(acc, email) ==
    IF ~Truthy(email) THEN acc
    ELSE LET c == email.category
         IN  [stats             |-> count_up(acc.stats, c),
              categories_found  |-> acc.categories_found \cup {c},
              total_size        |-> acc.total_size + email.size_bytes,
              category_previews |-> keep_preview(acc.category_previews, c, email.subject)]

\* the loop over email_data, from the empty accumulators
RECURSIVE collect_all(_)
collect_all(emails) ==
    IF emails = <<>>
    THEN [stats |-> EmptyDict, categories_found |-> {}, total_size |-> 0,
          category_previews |-> EmptyDict]
    ELSE collect(collect_all(SubSeq(emails, 1, Len(emails) - 1)), emails[Len(emails)])

\* sum(d.values())
RECURSIVE sum_keys(_, _)
sum_keys(d, keys) ==
    IF keys = <<>> THEN 0 ELSE d.val[Head(keys)] + sum_keys(d, Tail(keys))

sum_values(d) == sum_keys(d, d.keys)

\* a max that lets a later item of equal count replace the earlier one
RECURSIVE max_item_last(_, _)
max_item_last(d, keys) ==
    IF Len(keys) = 1 THEN <<keys[1], d.val[keys[1]]>>
    ELSE LET best == max_item_last(d, SubSeq(keys, 1, Len(keys) - 1))
             k    == keys[Len(keys)]
         IN  IF d.val[k] >= best[2] THEN <<k, d.val[k]>> ELSE best

\* max(items, key=lambda x: x[1]) over the items of the keys, in their order:
\* a later item replaces the best so far only when its count is greater
RECURSIVE max_item(_, _)
max_item(d, keys) ==
    IF Len(keys) = 1 THEN <<keys[1], d.val[keys[1]]>>
    ELSE LET best == max_item(d, SubSeq(keys, 1, Len(keys) - 1))
             k    == keys[Len(keys)]
         IN  IF d.val[k] > best[2] THEN <<k, d.val[k]>> ELSE best

\* the percentage loop: (count / total_emails) * 100 for each item of stats
percentages_of(st, total_emails) ==
    [keys |-> st.keys,
     val  |-> [c \in DOMAIN st.val |->
                  IF total_emails > 0
                  THEN Fraction(st.val[c] * 100, total_emails)
                  ELSE Fraction(0, 1)]]

(* The statistics from line 166 on.  The two time stamps read the clock,   *)
(* which the model keeps as the value "now".                               *)
statistics_of(emails) ==
    LET acc          == collect_all(emails)
        total_emails == sum_values(acc.stats)
        percentages  == percentages_of(acc.stats, total_emails)
        most_common  == IF acc.stats.keys # <<>> THEN max_item(acc.stats, acc.stats.keys)
                        ELSE <<"N/A", 0>>
    IN  [counts           |-> acc.stats,
         percentages      |-> percentages,
         total_emails     |-> total_emails,
         total_size_bytes |-> acc.total_size,
         total_size_mb    |-> IF acc.total_size > 0 THEN Fraction(acc.total_size, BytesPerMB)
                              ELSE Fraction(0, 1),
         categories_found |-> sorted(acc.categories_found),
         most_common      |-> [category   |-> most_common[1],
                               count      |-> most_common[2],
                               percentage |-> Get(percentages, most_common[1], Fraction(0, 1))],
         previews         |-> acc.category_previews,
         processed_at     |-> "now",
         processing_time  |-> "now"]

\* a generate_statistics without the `if not email_data` return
generate_statistics_unguarded(emails) == statistics_of(emails)

\* `if not email_data: return {}`, else the statistics
generate_statistics(emails) ==
    IF emails = <<>> THEN <<>> ELSE statistics_of(emails)

(***************************************************************************)
(* save_report_to_csv                                                      *)
(***************************************************************************)
\* d.get(key, default) on a dict with fixed keys, kept as a record
dict_get(d, key, default) == IF key \in DOMAIN d THEN d[key] ELSE default

(* The cells of a row.  csv.writer writes str(cell); the model keeps the   *)
(* value of each cell with the kind of text it is written as.              *)
Str(s)      == [str |-> s]
Number(n)   == [int |-> n]
Chars(t)    == [chars |-> t]
PathCell(p) == [path |-> p]

\* 1024, the divisor of size_kb
BytesPerKB == 1024

RECURSIVE power_of_ten(_)
power_of_ten(places) == IF places = 0 THEN 1 ELSE 10 * power_of_ten(places - 1)

\* f"{x:.1f}" and f"{x:.2f}" of the fraction x: the decimal of that many places nearest
\* to x, a tie going to the even digit; kept as the integer x * 10^places, rounded
Fixed(x, places) ==
    LET scaled == x.num * power_of_ten(places)
        q      == scaled \div x.den
        r      == scaled % x.den
    IN  [places |-> places,
         scaled |-> IF 2 * r < x.den THEN q
                    ELSE IF 2 * r > x.den THEN q + 1
                    ELSE q + (q % 2)]

\* f"{label}{cell}" and f"{cell}%"
FString(label, cell) == [label |-> label, value |-> cell]
Percent(cell)        == [percent |-> cell]

\* writer.writerow([])
EmptyRow == <<>>

\* the header section
header_rows(st) ==
    << <<Str("EMAIL CATEGORIZATION REPORT")>>,
       <<FString("Generated: ", Str(dict_get(st, "processing_time", "N/A")))>>,
       <<FString("Total Emails Processed: ", Number(dict_get(st, "total_emails", 0)))>>,
       <<FString("Total Data Size: ",
                 Fixed(dict_get(st, "total_size_mb", Fraction(0, 1)), 2))>>,
       EmptyRow >>

\* the row of one category
summary_row(counts, percentages, c) ==
    <<Str(c), Number(counts.val[c]), Percent(Fixed(Get(percentages, c, Fraction(0, 1)), 1))>>

\* the rows of a summary loop that takes the categories as the dict holds them
category_rows_unsorted(counts, percentages) ==
    [i \in 1..Len(counts.keys) |-> summary_row(counts, percentages, counts.keys[i])]

\* for category in sorted(counts.keys()): one row
category_rows(counts, percentages) ==
    LET keys == sorted({counts.keys[i] : i \in 1..Len(counts.keys)})
    IN  [i \in 1..Len(keys) |-> summary_row(counts, percentages, keys[i])]

\* the summary section
summary_rows(st) ==
    << <<Str("SUMMARY STATISTICS")>>,
       <<Str("Category"), Str("Count"), Str("Percentage")>> >>
    \o category_rows(dict_get(st, "counts", EmptyDict), dict_get(st, "percentages", EmptyDict))
    \o << <<Str("TOTAL"), Number(dict_get(st, "total_emails", 0)), Str("100%")>>,
          EmptyRow >>

\* the row of one email
detail_row(email) ==
    <<Str(email.filename), Str(email.category), Chars(email.subject),
      Fixed(Fraction(email.size_bytes, BytesPerKB), 1), PathCell(email.filepath)>>

\* the detail section
detail_rows(emails) ==
    << <<Str("DETAILED EMAIL LIST")>>,
       <<Str("Filename"), Str("Category"), Str("Subject"), Str("Size (KB)"),
         Str("Filepath")>> >>
    \o [i \in 1..Len(emails) |-> detail_row(emails[i])]
    \o << EmptyRow >>

\* the notes section
notes_rows ==
    << <<Str("PROCESSING NOTES")>>,
       <<Str("This report was generated by Email Categorizer v1.0")>>,
       <<Str("Inspired by volunteer management at Toronto Animal Services")>>,
       <<Str("GitHub: https://github.com/hemen-dev/email-categorizer")>> >>

\* the rows the with-block writes, in the order it writes them
report_rows(emails, st) ==
    header_rows(st) \o summary_rows(st) \o detail_rows(emails) \o notes_rows

(* The destination of a report.  `fault` is what the file system does to   *)
(* the call: nothing, open() raising (the destination cannot be written),  *)
(* or a write raising once `after` rows are in the file.                   *)
NoFault            == [kind |-> "none", after |-> 0]
OpenFault          == [kind |-> "open", after |-> 0]
WriteFault(after)  == [kind |-> "write", after |-> after]

NoReportFile == [exists |-> FALSE, rows |-> <<>>]

\* the with-block: open(filename, 'w') and the writerow calls
write_report(emails, st, fault, before) ==
    LET rows == report_rows(emails, st)
    IN  IF fault.kind = "open" THEN [file |-> before, end |-> Raise("PermissionError", <<>>)]
        ELSE IF fault.kind = "write" /\ fault.after < Len(rows)
        THEN [file |-> [exists |-> TRUE, rows |-> SubSeq(rows, 1, fault.after)],
              end  |-> Raise("OSError", <<>>)]
        ELSE [file |-> [exists |-> TRUE, rows |-> rows], end |-> Return(None, <<>>)]

\* a report writer whose try has no except clause
save_report_to_csv_uncaught(emails, st, fault, before) ==
    IF emails = <<>>
    THEN [file |-> before, end |-> Return(None, << <<"warning", "No email data to save">> >>)]
    ELSE LET w == write_report(emails, st, fault, before)
         IN  IF w.end.kind = "raise" THEN w
             ELSE [file |-> w.file, end |-> Return(None, << <<"info", "CSV report saved">> >>)]

\* save_report_to_csv: the destination after the call and how the call ended
save_report_to_csv(emails, st, fault, before) ==
    IF emails = <<>>
    THEN [file |-> before, end |-> Return(None, << <<"warning", "No email data to save">> >>)]
    ELSE LET w == write_report(emails, st, fault, before)
         IN  IF w.end.kind = "raise"
             THEN IF IsInstance(w.end.exc, "Exception")
                  THEN [file |-> w.file,
                        end  |-> Return(None, << <<"error", "Failed to save CSV report">> >>)]
                  ELSE w
             ELSE [file |-> w.file, end |-> Return(None, << <<"info", "CSV report saved">> >>)]

(***************************************************************************)
(* The inputs                                                              *)
(***************************************************************************)
Filler == [i \in 1..31 |-> "x"]

\* the pieces the contents of a file are put together from
FileFragments ==
    { <<"S","u","b","j","e","c","t",":">>, <<"S","U","B","J","E","C","T",":"," ">>,
      NoSubject, Filler, <<"d","o","g">>, <<" ">>, <<"\n">> }

\* the number of pieces of a file's content
MaxFileFragments == 3

\* the contents of at most n pieces
FileContents(n) == TextsOf(FileFragments, n)

InboxPath(name) == <<"inbox", name>>

\* the files a path can name, with contents of at most n pieces
Files(n) ==
    {MissingFile(InboxPath("a.txt"))}
    \cup {DirectoryFile(InboxPath("a.txt"), size) : size \in {0, 4096}}
    \cup {RegularFile(InboxPath("a.txt"), text, blanks, FALSE, err) :
            text \in FileContents(n), blanks \in {0, LargeFileBytes},
            err \in {"none", "PermissionError", "OSError"}}
    \cup {RegularFile(InboxPath("a.txt"), text, blanks, TRUE, "none") :
            text \in FileContents(n), blanks \in {0, LargeFileBytes}}

\* the entry names of the input directory; the last two do not end in ".txt"
TxtNames   == {"a.txt", "b.txt", "c.txt"}
EntryNames == TxtNames \cup {"notes.md", "d.TXT"}

DotTxt == <<".", "t", "x", "t">>

\* ".meta.txt", what a sidecar's name adds to the name of the copy
MetaTxt == <<".", "m", "e", "t", "a", ".", "t", "x", "t">>

\* "ORGANIZATION_SUMMARY", the name of the summary without its extension
SummaryChars == <<"O","R","G","A","N","I","Z","A","T","I","O","N","_","S","U","M","M","A","R","Y">>

\* every name the model gives a file
AllNames == EntryNames \cup {"ORGANIZATION_SUMMARY.txt", "a.txt.meta.txt", "b.txt.meta.txt",
                             "ORGANIZATION_SUMMARY.txt.meta.txt"}

\* the characters of an entry name
NameChars(name) ==
    CASE name = "a.txt"    -> <<"a">> \o DotTxt
      [] name = "b.txt"    -> <<"b">> \o DotTxt
      [] name = "c.txt"    -> <<"c">> \o DotTxt
      [] name = "notes.md" -> <<"n","o","t","e","s",".","m","d">>
      [] name = "d.TXT"    -> <<"d",".","T","X","T">>
      [] name = "ORGANIZATION_SUMMARY.txt" -> SummaryChars \o DotTxt
      [] name = "a.txt.meta.txt" -> <<"a">> \o DotTxt \o MetaTxt
      [] name = "b.txt.meta.txt" -> <<"b">> \o DotTxt \o MetaTxt
      [] name = "ORGANIZATION_SUMMARY.txt.meta.txt" -> SummaryChars \o DotTxt \o MetaTxt

\* the number of entries of the input directory
MaxEntries == 4

\* the listings of at most n entries os.listdir can return: in any order, none twice
Listings(n) ==
    {l \in SeqsUpTo(EntryNames, n) :
        \A i, j \in 1..Len(l) : i # j => l[i] # l[j]}

SubjectHi == <<"S","u","b","j","e","c","t",":"," ","H","i","\n">>

\* what a listed entry can be when the loop reaches it
EntryKinds == {"missing", "directory", "blank", "denied", "valid"}

EntryFile(name, kind) ==
    CASE kind = "missing"     -> MissingFile(InboxPath(name))
      [] kind = "directory"   -> DirectoryFile(InboxPath(name), 4096)
      [] kind = "blank"       -> RegularFile(InboxPath(name), <<" ", "\n">>, 0, FALSE, "none")
      [] kind = "denied"      ->
            RegularFile(InboxPath(name), <<"d","o","g">>, 0, FALSE, "PermissionError")
      [] kind = "valid"       ->
            RegularFile(InboxPath(name), SubjectHi \o <<"d","o","g">>, 0, FALSE, "none")

NoFileSystem ==
    [exists |-> FALSE, listing |-> <<>>,
     files |-> [n \in EntryNames |-> MissingFile(InboxPath(n))]]

\* the directories with the listing l: an entry that is not listed is not there, a
\* listed ".txt" entry is a file of any kind
FileSystemsOf(l) ==
    LET listed == {l[i] : i \in 1..Len(l)}
    IN  {[exists |-> TRUE, listing |-> l,
          files  |-> [n \in EntryNames |->
                        IF n \in DOMAIN k THEN EntryFile(n, k[n])
                        ELSE IF n \in listed THEN EntryFile(n, "valid")
                        ELSE MissingFile(InboxPath(n))]] :
            k \in [listed \cap TxtNames -> EntryKinds]}

\* the directories of at most n entries the batch runs on
FileSystems(n) == {NoFileSystem} \cup UNION {FileSystemsOf(l) : l \in Listings(n)}

\* the texts of the emails the statistics are taken of
SampleTexts ==
    { <<"d","o","g">>, SubjectHi \o <<"d","o","g">>,
      <<"c","a","t","s">>, SubjectHi \o <<"c","a","t","s">>,
      <<"h","e","l","p">>, <<"o","p","e","n","?">> }

\* the records process_single_email returns for them
EmailPool ==
    {process_single_email(RegularFile(InboxPath("a.txt"), text, 0, FALSE, "none")).value :
        text \in SampleTexts}

\* the number of emails of a list
MaxEmails == 4

\* the lists of at most n emails
EmailLists(n) == SeqsUpTo(EmailPool, n)

Pending == [kind |-> "pending", value |-> None, exc |-> "none", log |-> <<>>]

(***************************************************************************)
(* organize_emails                                                         *)
(***************************************************************************)
(* The file system is the entry at each path.  An entry is absent, a       *)
(* directory or a file; a file has a mode, "rw" or "ro" (no write bit), and*)
(* its data.  A process that is not the superuser cannot open a read-only  *)
(* file for writing.                                                       *)
NoData        == [none |-> TRUE]
Absent        == [kind |-> "absent", mode |-> "rw", data |-> NoData]
Directory     == [kind |-> "dir", mode |-> "rw", data |-> NoData]
File(mode, d) == [kind |-> "file", mode |-> mode, data |-> d]

\* os.path.join(directory, name)
join(directory, name) == Append(directory, name)

\* the name with the given characters
NameOf(chars) == CHOOSE n \in AllNames : NameChars(n) = chars

\* path + suffix: the suffix is added to the last component
add_suffix(path, suffix) ==
    [path EXCEPT ![Len(path)] = NameOf(NameChars(path[Len(path)]) \o suffix)]

\* os.path.exists(path)
exists(d, path) == d[path].kind # "absent"

\* how a call that changes the file system ends: the file system after it and the
\* return or the exception
Done(d, end) == [disk |-> d, end |-> end]

\* os.makedirs(path, exist_ok=True): the missing directories from the top down; a file
\* on the way raises
makedirs(d, path) ==
    LET on_the_way == {k \in 1..Len(path) : d[SubSeq(path, 1, k)].kind = "file"}
    IN  IF on_the_way # {}
        THEN Done(d, Raise(IF Len(path) \in on_the_way THEN "FileExistsError"
                           ELSE "NotADirectoryError", <<>>))
        ELSE Done([q \in DOMAIN d |->
                     IF \E k \in 1..Len(path) : q = SubSeq(path, 1, k) THEN Directory
                     ELSE d[q]],
                  Return(None, <<>>))

\* open(path, 'w') followed by the writes: the file is created, or truncated and
\* written again with the mode it has
open_write(d, path, data, su) ==
    IF d[path].kind = "dir" THEN Done(d, Raise("IsADirectoryError", <<>>))
    ELSE IF d[path].kind = "file" /\ d[path].mode = "ro" /\ ~su
    THEN Done(d, Raise("PermissionError", <<>>))
    ELSE Done([d EXCEPT ![path] = File(IF d[path].kind = "file" THEN d[path].mode ELSE "rw",
                                       data)],
              Return(None, <<>>))

\* shutil.copy2(src, dst): the data of the source, then its mode and times
copy2(d, src, dst, su) ==
    IF src = dst THEN Done(d, Raise("SameFileError", <<>>))
    ELSE IF d[src].kind = "dir" THEN Done(d, Raise("IsADirectoryError", <<>>))
    ELSE IF d[dst].kind = "file" /\ d[dst].mode = "ro" /\ ~su
    THEN Done(d, Raise("PermissionError", <<>>))
    ELSE Done([d EXCEPT ![dst] = File(d[src].mode, d[src].data)], Return(None, <<>>))

\* what the four writes put in a sidecar
sidecar(email) ==
    [meta |-> [category |-> email.category, original |-> email.filepath,
               processed |-> "now", subject |-> email.subject]]

\* the locals of the loop: the file system, the two counters, and the exception that
\* has left the loop, if one has
Counting(d, organized, skipped, end) ==
    [disk |-> d, organized_count |-> organized, skipped_count |-> skipped, end |-> end]

\* the inner try: copy2, organized_count += 1, the sidecar; any Exception of the block
\* is logged and counted as skipped
copy_step(st, email, dest_path, su) ==
    LET cp == copy2(st.disk, email.filepath, dest_path, su)
    IN  IF cp.end.kind = "raise"
        THEN Counting(cp.disk, st.organized_count, st.skipped_count + 1, st.end)
        ELSE LET wr == open_write(cp.disk, add_suffix(dest_path, MetaTxt), sidecar(email), su)
             IN  IF wr.end.kind = "raise"
                 THEN Counting(wr.disk, st.organized_count + 1, st.skipped_count + 1, st.end)
                 ELSE Counting(wr.disk, st.organized_count + 1, st.skipped_count, st.end)

\* a loop body that lets the exception of a failed copy leave the loop
organize_one_fatal(st, email, output_dir, su) ==
    IF email.filepath = <<>> \/ ~exists(st.disk, email.filepath)
    THEN Counting(st.disk, st.organized_count, st.skipped_count + 1, st.end)
    ELSE LET category_dir == join(output_dir, email.category)
             mk == makedirs(st.disk, category_dir)
             cp == copy2(mk.disk, email.filepath, join(category_dir, email.filename), su)
         IN  IF mk.end.kind = "raise"
             THEN Counting(mk.disk, st.organized_count, st.skipped_count, mk.end)
             ELSE IF cp.end.kind = "raise"
             THEN Counting(cp.disk, st.organized_count, st.skipped_count, cp.end)
             ELSE copy_step([st EXCEPT !.disk = mk.disk], email,
                            join(category_dir, email.filename), su)

\* the body of `for email in email_data`
organize_one(st, email, output_dir, su) ==
    IF email.filepath = <<>> \/ ~exists(st.disk, email.filepath)
    THEN Counting(st.disk, st.organized_count, st.skipped_count + 1, st.end)
    ELSE LET category_dir == join(output_dir, email.category)
             mk == makedirs(st.disk, category_dir)
         IN  IF mk.end.kind = "raise"
             THEN Counting(mk.disk, st.organized_count, st.skipped_count, mk.end)
             ELSE copy_step([st EXCEPT !.disk = mk.disk], email,
                            join(category_dir, email.filename), su)

\* the categories of the list and the number of emails of each, in sorted order
category_breakdown(emails) ==
    LET found == sorted({emails[i].category : i \in 1..Len(emails)})
    IN  [k \in 1..Len(found) |->
            <<found[k], Cardinality({i \in 1..Len(emails) : emails[i].category = found[k]})>>]

\* what the writes put in ORGANIZATION_SUMMARY.txt
summary_of(st, emails) ==
    [summary |-> [generated |-> "now",
                  source |-> Len(emails),
                  organized |-> st.organized_count,
                  skipped |-> st.skipped_count,
                  categories_created |->
                      Cardinality({emails[i].category : i \in 1..Len(emails)}),
                  breakdown |-> category_breakdown(emails)]]

\* the summary block after the loop
write_summary(st, emails, output_dir, su) ==
    open_write(st.disk, join(output_dir, "ORGANIZATION_SUMMARY.txt"),
               summary_of(st, emails), su)

\* the loop, left at once by an exception
RECURSIVE organize_loop(_, _, _, _)
organize_loop(st, emails, output_dir, su) ==
    IF emails = <<>> \/ st.end.kind = "raise" THEN st
    ELSE organize_loop(organize_one(st, Head(emails), output_dir, su), Tail(emails),
                       output_dir, su)

\* a return of both counters
organize_return_both(st) ==
    Return([organized_count |-> st.organized_count, skipped_count |-> st.skipped_count],
           << <<"info", "Organization complete">> >>)

\* return organized_count
organize_return(st) ==
    Return(Number(st.organized_count), << <<"info", "Organization complete">> >>)

\* the outer except clause: the error is logged and 0 returned
organize_failed(d) == Done(d, Return(Number(0), << <<"error", "Failed to organize emails">> >>))

\* organize_emails: the file system after the call and what the call returns
organize_emails(emails, output_dir, d, su) ==
    IF emails = <<>>
    THEN Done(d, Return(None, << <<"warning", "No email data to organize">> >>))
    ELSE
    LET mk == makedirs(d, output_dir) IN
    IF mk.end.kind = "raise" THEN organize_failed(mk.disk)
    ELSE
    LET st == organize_loop(Counting(mk.disk, 0, 0, Pending), emails, output_dir, su) IN
    IF st.end.kind = "raise" THEN organize_failed(st.disk)
    ELSE
    LET wr == write_summary(st, emails, output_dir, su) IN
    IF wr.end.kind = "raise" THEN organize_failed(wr.disk)
    ELSE Done(wr.disk, organize_return(st))

(***************************************************************************)
(* The inputs of the report writer and of the organizer                    *)
(***************************************************************************)
\* the records of the emails a report is written of
ReportPool ==
    {process_single_email(RegularFile(InboxPath(n), text, 0, FALSE, "none")).value :
        n \in {"a.txt", "b.txt"},
        text \in { SubjectHi \o <<"d","o","g">>, <<"c","a","t","s">>, <<"o","p","e","n","?">> }}

\* the number of emails of a report
MaxReportEmails == 3

\* the lists of at most n emails a report is written of
ReportLists(n) == SeqsUpTo(ReportPool, n)

\* what the file system can do to the report of a list
ReportFaults(emails, st) ==
    {NoFault, OpenFault}
    \cup {WriteFault(k) : k \in 0..(Len(report_rows(emails, st)) - 1)}

\* a report an earlier run left at the destination
OldReportFile == [exists |-> TRUE, rows |-> << <<Str("an earlier report")>> >>]

\* the output root, and the directories the emails of a run can come from: a directory
\* of its own, the output root, and a category directory of the output root
OutputRoot == <<"out">>
SourceDirs == { <<"inbox">>, OutputRoot, <<"out", "DOG_FOSTER">> }

\* the names of the emails of an organizer run, and the text of each
OrganizeNames == {"a.txt", "b.txt", "ORGANIZATION_SUMMARY.txt"}

TextOf(name) ==
    CASE name = "a.txt" -> SubjectHi \o <<"d","o","g">>
      [] name = "b.txt" -> <<"c","a","t","s">>
      [] OTHER          -> <<"d","o","g">>

\* the record process_single_email returned for the file `name` of the directory
EmailOf(directory, name) ==
    process_single_email(RegularFile(join(directory, name), TextOf(name), 0, FALSE,
                                     "none")).value

\* the number of emails of an organizer run
MaxOrganized == 3

\* the lists of at most n emails of the directory, no file twice
OrganizeLists(directory, n) ==
    {[i \in 1..Len(l) |-> EmailOf(directory, l[i])] :
        l \in {m \in SeqsUpTo(OrganizeNames, n) :
                 \A i, j \in 1..Len(m) : i # j => m[i] # m[j]}}

\* the directories and the files of the model's file system
DirPaths  == { <<"inbox">>, OutputRoot, <<"out", "DOG_FOSTER">>, <<"out", "CAT_FOSTER">> }
FilePaths == {join(d, n) : d \in DirPaths, n \in AllNames \ {"notes.md", "d.TXT", "c.txt"}}
Paths     == DirPaths \cup FilePaths

\* what a source file is when the organizer reaches it: deleted since it was
\* processed, an ordinary file, or a file without the write bit
SourceStates == {"gone", "rw", "ro"}

(* What an earlier use of the output root left in the organizer's way: nothing, a file *)
(* where the root or a category directory goes, a directory where a sidecar or the     *)
(* summary goes, a read-only copy.                                                     *)
Stale == [chars |-> <<"o","l","d">>]
Obstacles ==
    { [path |-> <<>>, entry |-> Absent],
      [path |-> OutputRoot, entry |-> File("rw", Stale)],
      [path |-> <<"out", "DOG_FOSTER">>, entry |-> File("rw", Stale)],
      [path |-> <<"out", "DOG_FOSTER", "a.txt.meta.txt">>, entry |-> Directory],
      [path |-> <<"out", "DOG_FOSTER", "a.txt">>, entry |-> File("ro", Stale)],
      [path |-> <<"out", "ORGANIZATION_SUMMARY.txt">>, entry |-> Directory] }

\* q is the path p or a directory above it
IsPrefix(q, p) == Len(q) <= Len(p) /\ SubSeq(p, 1, Len(q)) = q

\* the obstacle is neither a source file nor the source directory or one above it
Fits(obstacle, directory) ==
    \/ obstacle.path = <<>>
    \/ /\ ~IsPrefix(obstacle.path, directory)
       /\ \A n \in OrganizeNames : obstacle.path # join(directory, n)

\* the file system an organizer run starts on: the emails' files in `directory`, each in
\* the state `state` gives its position, the obstacle, and the directories above them
InitialDisk(directory, emails, state, obstacle) ==
    [p \in Paths |->
        IF obstacle.path # <<>> /\ p = obstacle.path THEN obstacle.entry
        ELSE IF \E i \in 1..Len(emails) : p = emails[i].filepath
        THEN LET i == CHOOSE j \in 1..Len(emails) : p = emails[j].filepath
             IN  IF state[i] = "gone" THEN Absent
                 ELSE File(state[i], [chars |-> TextOf(emails[i].filename)])
        ELSE IF IsPrefix(p, directory) THEN Directory
        ELSE IF obstacle.path # <<>> /\ IsPrefix(p, obstacle.path) THEN Directory
        ELSE Absent]

(***************************************************************************)
(* The specifications                                                      *)
(***************************************************************************)
\* the values of the variables a specification does not use
IdleClassify == content = <<>> /\ category = "pending"
IdleFile     == file = MissingFile(InboxPath("a.txt")) /\ outcome = Pending
IdleBatch    == /\ fs = NoFileSystem
                /\ response = "none"
                /\ email_files = <<>>
                /\ idx = 0
                /\ calls = <<>>
                /\ processed_count = 0
IdleStats    == email_data = <<>> /\ stats = None
IdleReport   == report = [fault |-> NoFault, file |-> NoReportFile, end |-> Pending]
IdleOrganize == disk = <<>> /\ superuser = FALSE /\ org = None
IdleForm     == form = None
IdleMain     == args = None /\ run = None
IdleLater    == IdleReport /\ IdleOrganize /\ IdleForm /\ IdleMain

(* categorize_email, called on a text *)
InitClassify ==
    /\ content \in ClassifyTexts(MaxClassifyFragments)
    /\ category = "pending"
    /\ pc = "call"
    /\ IdleFile /\ IdleBatch /\ IdleStats /\ IdleLater

Categorize ==
    /\ pc = "call"
    /\ category' = categorize_email(content)
    /\ pc' = "done"
    /\ UNCHANGED <<content, fileVars, batchVars, statsVars, laterVars>>

NextClassify == Categorize

SpecClassify == InitClassify /\ [][NextClassify]_vars

(* process_single_email, called on the path of a file *)
InitFile ==
    /\ file \in Files(MaxFileFragments)
    /\ outcome = Pending
    /\ pc = "call"
    /\ IdleClassify /\ IdleBatch /\ IdleStats /\ IdleLater

ProcessSingleEmail ==
    /\ pc = "call"
    /\ outcome' = process_single_email(file)
    /\ pc' = "done"
    /\ UNCHANGED <<file, classifyVars, batchVars, statsVars, laterVars>>

NextFile == ProcessSingleEmail

SpecFile == InitFile /\ [][NextFile]_vars

(* generate_statistics, called on a list of records *)
InitStats ==
    /\ email_data \in EmailLists(MaxEmails)
    /\ stats = None
    /\ pc = "call"
    /\ IdleClassify /\ IdleFile /\ IdleBatch /\ IdleLater

GenerateStatistics ==
    /\ pc = "call"
    /\ stats' = generate_statistics(email_data)
    /\ pc' = "done"
    /\ UNCHANGED <<email_data, classifyVars, fileVars, batchVars, laterVars>>

NextStats == GenerateStatistics

SpecStats == InitStats /\ [][NextStats]_vars

(* The batch of the web handler `process`, from the directory check to the *)
(* statistics.  main() holds the same loop.                                *)
InitBatch ==
    /\ fs \in FileSystems(MaxEntries)
    /\ response = "none"
    /\ email_files = <<>>
    /\ idx = 0
    /\ calls = <<>>
    /\ processed_count = 0
    /\ email_data = <<>>
    /\ stats = None
    /\ pc = "check_directory"
    /\ IdleClassify /\ IdleFile /\ IdleLater

\* if not os.path.exists(directory): answer with the error
CheckDirectory ==
    /\ pc = "check_directory"
    /\ IF ~fs.exists
       THEN response' = "Directory not found" /\ pc' = "responded"
       ELSE response' = response /\ pc' = "find_files"
    /\ UNCHANGED <<fs, email_files, idx, calls, processed_count,
                   classifyVars, fileVars, statsVars, laterVars>>

\* [os.path.join(directory, file) for file in os.listdir(directory) if file.endswith('.txt')]
txt_paths(listing) ==
    LET kept == SelectSeq(listing, LAMBDA n : endswith(NameChars(n), DotTxt))
    IN  [i \in 1..Len(kept) |-> InboxPath(kept[i])]

\* the listing loop and `if not email_files`
FindEmailFiles ==
    /\ pc = "find_files"
    /\ email_files' = txt_paths(fs.listing)
    /\ IF email_files' = <<>>
       THEN response' = "No .txt files found" /\ pc' = "responded"
       ELSE response' = response /\ pc' = "process_emails"
    /\ UNCHANGED <<fs, idx, calls, processed_count, classifyVars, fileVars, statsVars,
                   laterVars>>

\* a loop body that leaves the loop at the first absent result
loop_body_break(data, count, result) ==
    IF Truthy(result)
    THEN [email_data |-> Append(data, result), processed_count |-> count + 1, break |-> FALSE]
    ELSE [email_data |-> data, processed_count |-> count, break |-> TRUE]

\* if result: email_data.append(result); processed_count += 1
loop_body(data, count, result) ==
    IF Truthy(result)
    THEN [email_data |-> Append(data, result), processed_count |-> count + 1, break |-> FALSE]
    ELSE [email_data |-> data, processed_count |-> count, break |-> FALSE]

\* one turn of `for filepath in email_files`; an exception that leaves
\* process_single_email reaches the handler's own except clause
ProcessNextFile ==
    /\ pc = "process_emails"
    /\ idx < Len(email_files)
    /\ LET filepath == email_files[idx + 1]
           call     == process_single_email(fs.files[basename(filepath)])
           next     == loop_body(email_data, processed_count, call.value)
       IN  /\ calls' = Append(calls, filepath)
           /\ IF call.kind = "raise"
              THEN /\ response' = "Server error"
                   /\ pc' = "responded"
                   /\ UNCHANGED <<idx, email_data, processed_count>>
              ELSE /\ email_data' = next.email_data
                   /\ processed_count' = next.processed_count
                   /\ idx' = IF next.break THEN Len(email_files) ELSE idx + 1
                   /\ UNCHANGED <<response, pc>>
    /\ UNCHANGED <<fs, email_files, stats, classifyVars, fileVars, laterVars>>

\* an `if` after the loop that gives up when any file came back absent
no_emails_some_absent(data, files) == Len(data) < Len(files)

\* if not email_data
no_emails(data, files) == data = <<>>

\* after the loop: `if not email_data` answers with the error, else the statistics
FinishBatch ==
    /\ pc = "process_emails"
    /\ idx = Len(email_files)
    /\ IF no_emails(email_data, email_files)
       THEN /\ response' = "No emails were successfully processed"
            /\ pc' = "responded"
            /\ stats' = stats
       ELSE /\ stats' = generate_statistics(email_data)
            /\ pc' = "statistics"
            /\ response' = response
    /\ UNCHANGED <<fs, email_files, idx, calls, email_data, processed_count,
                   classifyVars, fileVars, laterVars>>

NextBatch == CheckDirectory \/ FindEmailFiles \/ ProcessNextFile \/ FinishBatch

SpecBatch == InitBatch /\ [][NextBatch]_vars

(* save_report_to_csv, called on a list and its statistics *)
InitReport ==
    /\ email_data \in ReportLists(MaxReportEmails)
    /\ stats = generate_statistics(email_data)
    /\ \E fault \in ReportFaults(email_data, stats), before \in {NoReportFile, OldReportFile} :
          report = [fault |-> fault, file |-> before, end |-> Pending]
    /\ pc = "call"
    /\ IdleClassify /\ IdleFile /\ IdleBatch /\ IdleOrganize /\ IdleForm /\ IdleMain

SaveReportToCsv ==
    /\ pc = "call"
    /\ LET r == save_report_to_csv(email_data, stats, report.fault, report.file)
       IN  report' = [report EXCEPT !.file = r.file, !.end = r.end]
    /\ pc' = "done"
    /\ UNCHANGED <<classifyVars, fileVars, batchVars, statsVars, organizeVars, form,
                   mainVars>>

NextReport == SaveReportToCsv

SpecReport == InitReport /\ [][NextReport]_vars

(* organize_emails, called twice in a row on a list and an output root *)
FirstRun(d) ==
    [output_dir |-> OutputRoot, run |-> 1, i |-> 0, organized_count |-> 0,
     skipped_count |-> 0, end |-> Pending, before |-> d,
     first |-> [end |-> Pending, organized_count |-> 0, skipped_count |-> 0, disk |-> d]]

InitOrganize ==
    /\ \E directory \in SourceDirs :
          /\ email_data \in OrganizeLists(directory, MaxOrganized)
          /\ \E state \in [1..Len(email_data) -> SourceStates],
                obstacle \in {o \in Obstacles : Fits(o, directory)} :
                disk = InitialDisk(directory, email_data, state, obstacle)
    /\ superuser \in BOOLEAN
    /\ org = FirstRun(disk)
    /\ stats = None
    /\ pc = "organize"
    /\ IdleClassify /\ IdleFile /\ IdleBatch /\ IdleReport /\ IdleForm /\ IdleMain

\* `if not email_data: return`, and os.makedirs(output_dir, exist_ok=True)
OrganizeStart ==
    /\ pc = "organize"
    /\ IF email_data = <<>>
       THEN /\ org' = [org EXCEPT !.end = organize_emails(email_data, org.output_dir, disk,
                                                         superuser).end]
            /\ pc' = "organized"
            /\ disk' = disk
       ELSE LET mk == makedirs(disk, org.output_dir)
            IN  /\ disk' = mk.disk
                /\ IF mk.end.kind = "raise"
                   THEN /\ org' = [org EXCEPT !.end = organize_failed(mk.disk).end]
                        /\ pc' = "organized"
                   ELSE /\ org' = [org EXCEPT !.i = 0, !.organized_count = 0,
                                              !.skipped_count = 0]
                        /\ pc' = "organize_loop"
    /\ UNCHANGED <<superuser, classifyVars, fileVars, batchVars, statsVars, report, form,
                   mainVars>>

\* one turn of `for email in email_data`
OrganizeNext ==
    /\ pc = "organize_loop"
    /\ org.i < Len(email_data)
    /\ LET st == organize_one(Counting(disk, org.organized_count, org.skipped_count,
                                       Pending),
                              email_data[org.i + 1], org.output_dir, superuser)
       IN  /\ disk' = st.disk
           /\ IF st.end.kind = "raise"
              THEN /\ org' = [org EXCEPT !.end = organize_failed(st.disk).end]
                   /\ pc' = "organized"
              ELSE /\ org' = [org EXCEPT !.i = @ + 1,
                                         !.organized_count = st.organized_count,
                                         !.skipped_count = st.skipped_count]
                   /\ pc' = pc
    /\ UNCHANGED <<superuser, classifyVars, fileVars, batchVars, statsVars, report, form,
                   mainVars>>

\* after the loop: the summary file, and the return of organized_count
OrganizeSummary ==
    /\ pc = "organize_loop"
    /\ org.i = Len(email_data)
    /\ LET st == Counting(disk, org.organized_count, org.skipped_count, Pending)
           wr == write_summary(st, email_data, org.output_dir, superuser)
       IN  /\ disk' = wr.disk
           /\ org' = [org EXCEPT !.end =
                         IF wr.end.kind = "raise" THEN organize_failed(wr.disk).end
                         ELSE organize_return(st)]
    /\ pc' = "organized"
    /\ UNCHANGED <<superuser, classifyVars, fileVars, batchVars, statsVars, report, form,
                   mainVars>>

\* the caller calls organize_emails again, with the same list and output root
OrganizeAgain ==
    /\ pc = "organized"
    /\ org.run = 1
    /\ org' = [org EXCEPT !.run = 2, !.i = 0, !.organized_count = 0, !.skipped_count = 0,
                          !.end = Pending,
                          !.first = [end |-> org.end,
                                     organized_count |-> org.organized_count,
                                     skipped_count |-> org.skipped_count,
                                     disk |-> disk]]
    /\ pc' = "organize"
    /\ UNCHANGED <<disk, superuser, classifyVars, fileVars, batchVars, statsVars, report,
                   form, mainVars>>

NextOrganize == OrganizeStart \/ OrganizeNext \/ OrganizeSummary \/ OrganizeAgain

SpecOrganize == InitOrganize /\ [][NextOrganize]_vars

(* The output steps of the web handler `process`, from the statistics to  *)
(* the answer: the report, when its box is ticked, then the organizer,     *)
(* when its box is ticked.  main() holds the same two steps.               *)
\* the input directory as the handler found it: the listed files, all of them read
ListedFileSystem(emails) ==
    [exists  |-> TRUE,
     listing |-> [i \in 1..Len(emails) |-> emails[i].filename],
     files   |-> [n \in {emails[i].filename : i \in 1..Len(emails)} |->
                     RegularFile(InboxPath(n), TextOf(n), 0, FALSE, "none")]]

InitOutputs ==
    /\ email_data \in OrganizeLists(<<"inbox">>, MaxOrganized) \ {<<>>}
    /\ stats = generate_statistics(email_data)
    /\ fs = ListedFileSystem(email_data)
    /\ email_files = [i \in 1..Len(email_data) |-> email_data[i].filepath]
    /\ calls = email_files
    /\ idx = Len(email_files)
    /\ processed_count = Len(email_data)
    /\ response = "none"
    /\ form \in [report : BOOLEAN, organize : BOOLEAN]
    /\ \E fault \in ReportFaults(email_data, stats) :
          report = [fault |-> fault, file |-> NoReportFile, end |-> Pending]
    /\ \E state \in [1..Len(email_data) -> {"gone", "rw"}],
          obstacle \in {o \in Obstacles : o.path \in {<<>>, OutputRoot}} :
          disk = InitialDisk(<<"inbox">>, email_data, state, obstacle)
    /\ superuser = FALSE
    /\ org = FirstRun(disk)
    /\ pc = "statistics"
    /\ IdleClassify /\ IdleFile /\ IdleMain

\* if generate_report: save_report_to_csv(email_data, stats, report_name); an exception
\* that leaves the call reaches the handler's except clause
GenerateReport ==
    /\ pc = "statistics"
    /\ IF form.report
       THEN LET r == save_report_to_csv(email_data, stats, report.fault, report.file)
            IN  /\ report' = [report EXCEPT !.file = r.file, !.end = r.end]
                /\ IF r.end.kind = "raise"
                   THEN response' = "Server error" /\ pc' = "responded"
                   ELSE response' = response /\ pc' = "organize_step"
       ELSE /\ pc' = "organize_step"
            /\ UNCHANGED <<report, response>>
    /\ UNCHANGED <<fs, email_files, idx, calls, processed_count, classifyVars, fileVars,
                   statsVars, organizeVars, form, mainVars>>

\* if organize: count = organize_emails(email_data, output_dir)
OrganizeStep ==
    /\ pc = "organize_step"
    /\ IF form.organize
       THEN LET r == organize_emails(email_data, org.output_dir, disk, superuser)
            IN  /\ disk' = r.disk
                /\ org' = [org EXCEPT !.end = r.end]
                /\ IF r.end.kind = "raise"
                   THEN response' = "Server error" /\ pc' = "responded"
                   ELSE response' = response /\ pc' = "complete"
       ELSE /\ pc' = "complete"
            /\ UNCHANGED <<disk, org, response>>
    /\ UNCHANGED <<fs, email_files, idx, calls, processed_count, classifyVars, fileVars,
                   statsVars, superuser, report, form, mainVars>>

\* return jsonify({'success': True, ...})
Respond ==
    /\ pc = "complete"
    /\ response' = "Processing complete"
    /\ pc' = "responded"
    /\ UNCHANGED <<fs, email_files, idx, calls, processed_count, classifyVars, fileVars,
                   statsVars, organizeVars, report, form, mainVars>>

NextOutputs == GenerateReport \/ OrganizeStep \/ Respond

SpecOutputs == InitOutputs /\ [][NextOutputs]_vars

(***************************************************************************)
(* main(), from the parsed arguments on.  The steps after the read of the  *)
(* input directory are those of the batch above.                           *)
\* the `tests` list of run_tests
SelfTests ==
    <<
       [text |-> <<"I"," ","w","a","n","t"," ","t","o"," ","f","o","s","t","e","r"," ","a"," ","d","o","g">>,
        expected |-> "DOG_FOSTER"],
       [text |-> <<"I","n","t","e","r","e","s","t","e","d"," ","i","n"," ","c","a","t","s">>,
        expected |-> "CAT_FOSTER"],
       [text |-> <<"L","o","o","k","i","n","g"," ","f","o","r"," ","a"," ","r","a","b","b","i","t">>,
        expected |-> "SMALL_ANIMAL"],
       [text |-> <<"W","a","n","t"," ","t","o"," ","v","o","l","u","n","t","e","e","r">>,
        expected |-> "VOLUNTEER"],
       [text |-> <<"E","v","e","n","t"," ","p","a","r","t","i","c","i","p","a","t","i","o","n">>,
        expected |-> "EVENTS"],
       [text |-> <<"W","h","a","t"," ","t","i","m","e"," ","d","o"," ","y","o","u"," ","o","p","e","n","?">>,
        expected |-> "GENERAL_INQUIRY"]
    >>

\* one turn of `for text, expected in tests`
run_one_test(st, test) ==
    LET result == categorize_email(test.text)
    IN  [st EXCEPT !.i = st.i + 1,
                   !.results = Append(st.results, result),
                   !.passed = IF result = test.expected THEN st.passed + 1 ELSE st.passed]

\* return passed == len(tests)
run_tests_return(st) == IF st.passed = Len(SelfTests) THEN "True" ELSE "False"

\* the input directory of a run of main lists at most this many entries
MaxMainEntries == 1

\* what parse_arguments returns: the five options it defines
Arguments ==
    [report : BOOLEAN, organize : BOOLEAN, quiet : BOOLEAN, test : BOOLEAN,
     output : {"categorized_emails", "out"}]

\* getattr(args, name): a name parse_arguments did not define raises AttributeError
getattr(namespace, name) ==
    IF name \in DOMAIN namespace THEN Return(Str(name), <<>>)
    ELSE Raise("AttributeError", <<>>)

InitMain ==
    /\ args \in Arguments
    /\ fs \in FileSystems(MaxMainEntries)
    /\ run = [i |-> 0, passed |-> 0, results |-> <<>>, run_tests |-> "pending",
              printed |-> <<>>, end |-> Pending]
    /\ response = "none"
    /\ email_files = <<>>
    /\ idx = 0
    /\ calls = <<>>
    /\ processed_count = 0
    /\ pc = "main"
    /\ IdleClassify /\ IdleFile /\ IdleStats /\ IdleReport /\ IdleOrganize /\ IdleForm

\* `if args.test` and the banner
MainStart ==
    /\ pc = "main"
    /\ run' = [run EXCEPT !.printed =
                  IF args.test THEN <<"Running tests...">>
                  ELSE IF ~args.quiet THEN <<"EMAIL APPLICATION CATEGORIZER", "[1/3] Running tests...">>
                  ELSE <<>>]
    /\ pc' = "run_tests"
    /\ UNCHANGED <<args, classifyVars, fileVars, batchVars, statsVars, report, organizeVars,
                   form>>

\* run_tests: one test of the table
RunTest ==
    /\ pc = "run_tests"
    /\ run.i < Len(SelfTests)
    /\ run' = run_one_test(run, SelfTests[run.i + 1])
    /\ UNCHANGED <<pc, args, classifyVars, fileVars, batchVars, statsVars, report,
                   organizeVars, form>>

\* run_tests returns; `if not run_tests(): return` in a run that is not a test run
RunTestsReturn ==
    /\ pc = "run_tests"
    /\ run.i = Len(SelfTests)
    /\ LET passed == run_tests_return(run)
       IN  IF args.test
           THEN /\ run' = [run EXCEPT !.run_tests = passed]
                /\ pc' = "test_mode"
           ELSE IF passed = "False"
           THEN /\ run' = [run EXCEPT !.run_tests = passed,
                              !.printed = IF args.quiet THEN @
                                          ELSE Append(@, "Tests failed! Fix logic before continuing."),
                              !.end = Return(None, <<>>)]
                /\ pc' = "exited"
           ELSE /\ run' = [run EXCEPT !.run_tests = passed]
                /\ pc' = "email_dir"
    /\ UNCHANGED <<args, classifyVars, fileVars, batchVars, statsVars, report, organizeVars,
                   form>>

\* `if run_tests() and test_csv_report() and test_organization()` of a test run: the two
\* output tests write in the working directory and succeed or not with it
TestMode ==
    /\ pc = "test_mode"
    /\ \E csv_report_ok, organization_ok \in BOOLEAN :
          run' = [run EXCEPT !.printed =
                      Append(@, IF run.run_tests = "True" /\ csv_report_ok /\ organization_ok
                                THEN "All tests passed!" ELSE "Some tests failed!"),
                             !.end = Return(None, <<>>)]
    /\ pc' = "exited"
    /\ UNCHANGED <<args, classifyVars, fileVars, batchVars, statsVars, report, organizeVars,
                   form>>

\* email_dir = args.input_dir: the exception leaves main, which has no try
ReadInputDir ==
    /\ pc = "email_dir"
    /\ LET email_dir == getattr(args, "input_dir")
       IN  IF email_dir.kind = "raise"
           THEN /\ run' = [run EXCEPT !.end = email_dir]
                /\ pc' = "exited"
           ELSE /\ run' = run
                /\ pc' = "check_directory"
    /\ UNCHANGED <<args, classifyVars, fileVars, batchVars, statsVars, report, organizeVars,
                   form>>

NextMain == MainStart \/ RunTest \/ RunTestsReturn \/ TestMode \/ ReadInputDir

SpecMain == InitMain /\ [][NextMain]_vars

(***************************************************************************)
(* The claims                                                              *)
(***************************************************************************)
\* a value is a ProcessedEmail record
IsRecord(v) == DOMAIN v = {"filename", "subject", "category", "filepath", "size_bytes"}

\* word occurs in text at some position, letters compared without regard to case
OccursIgnoringCase(text, word) ==
    \E i \in 1..(Len(text) - Len(word) + 1) :
        \A j \in 1..Len(word) : lower_char(text[i + j - 1]) = lower_char(word[j])

\* the categories in their fixed order, each with its operative keywords
OperativeRules ==
    << [category |-> "DOG_FOSTER",
        keywords |-> { <<"d","o","g">>, <<"d","o","g","s">>, <<"p","u","p","p","y">>,
                       <<"p","u","p","p","i","e","s">> }],
       [category |-> "CAT_FOSTER",
        keywords |-> { <<"c","a","t">>, <<"c","a","t","s">>, <<"k","i","t","t","e","n">>,
                       <<"k","i","t","t","e","n","s">> }],
       [category |-> "SMALL_ANIMAL",
        keywords |-> { <<"r","a","b","b","i","t">>,
                       <<"g","u","i","n","e","a"," ","p","i","g">>,
                       <<"h","a","m","s","t","e","r">>,
                       <<"s","m","a","l","l"," ","a","n","i","m","a","l">> }],
       [category |-> "VOLUNTEER",
        keywords |-> { <<"v","o","l","u","n","t","e","e","r">>, <<"c","u","d","d","l","e">>,
                       <<"s","o","c","i","a","l","i","z","e">>, <<"h","e","l","p">> }],
       [category |-> "EVENTS",
        keywords |-> { <<"e","v","e","n","t">>, <<"o","u","t","r","e","a","c","h">>,
                       <<"c","o","m","m","u","n","i","t","y">>,
                       <<"f","e","s","t","i","v","a","l">> }] >>

\* the keywords only the CATEGORIES table holds that contain no operative keyword
TableOnlyWords ==
    { <<"c","a","n","i","n","e">>, <<"h","o","u","n","d">>, <<"f","e","l","i","n","e">> }

RuleMatches(r, text) == \E w \in OperativeRules[r].keywords : OccursIgnoringCase(text, w)

\* the category of the first rule with a keyword in the text
FirstMatch(text) ==
    LET hits == {r \in 1..Len(OperativeRules) : RuleMatches(r, text)}
    IN  IF hits = {} THEN "GENERAL_INQUIRY"
        ELSE OperativeRules[CHOOSE r \in hits : \A q \in hits : r <= q].category

\* C1: categorize_email returns the first category, in the order DOG_FOSTER,
\* CAT_FOSTER, SMALL_ANIMAL, VOLUNTEER, EVENTS, one of whose operative keywords occurs
\* in the text as a case-insensitive substring, and GENERAL_INQUIRY when none does: a
\* text with a dog keyword is DOG_FOSTER whatever else it holds, and a text whose only
\* keywords are canine, hound or feline is GENERAL_INQUIRY.
C1_FirstMatchWins ==
    pc = "done" =>
        /\ category = FirstMatch(content)
        /\ RuleMatches(1, content) => category = "DOG_FOSTER"
        /\ (\A r \in 1..Len(OperativeRules) : ~RuleMatches(r, content))
              => category = "GENERAL_INQUIRY"

\* a text with an upper-case dog keyword, a cat keyword and a table-only keyword
\* has been classified
C1_Witness ==
    /\ pc = "done"
    /\ RuleMatches(1, content) /\ ~any_word_in(DogWords, content)
    /\ RuleMatches(2, content)
    /\ \E w \in TableOnlyWords : OccursIgnoringCase(content, w)
    /\ category = "DOG_FOSTER"

\* C2: process_single_email never raises: for every file (missing, zero-size,
\* whitespace-only, not UTF-8, permission denied, a directory, any other read failure)
\* the call returns, and what it returns is a record or None.
C2_NeverRaises ==
    pc = "done" =>
        /\ outcome.kind = "return"
        /\ outcome.value = None \/ IsRecord(outcome.value)

\* a read that fails with an OSError none of the named clauses catches has returned None
C2_Witness ==
    /\ pc = "done"
    /\ file.exists /\ file.open_error = "OSError" /\ Len(file.content) > 0
    /\ outcome.kind = "return" /\ outcome.value = None

\* the conditions C3 states for a record
C3_StatedConditions(f) ==
    /\ f.exists
    /\ getsize(f) > 0
    /\ ~f.bad_byte
    /\ \E i \in 1..Len(f.content) : ~IsSpace(f.content[i])

\* the file can be opened and read
C3_Readable(f) == ~f.is_dir /\ f.open_error = "none"

\* a zero-byte file and a whitespace-only file give None, and a file of more than
\* 1 MiB gives what the same file without its trailing blanks gives, but for the size
C3_BlankAndLarge ==
    /\ (file.exists /\ ~file.is_dir /\ getsize(file) = 0) => outcome.value = None
    /\ (file.exists /\ ~file.is_dir /\ ~file.bad_byte /\ file.open_error = "none"
          /\ \A i \in 1..Len(file.content) : IsSpace(file.content[i]))
          => outcome.value = None
    /\ getsize(file) > LargeFileBytes =>
          LET small == process_single_email([file EXCEPT !.blanks = 0]).value
          IN  IF IsRecord(small)
              THEN /\ IsRecord(outcome.value)
                   /\ [outcome.value EXCEPT !.size_bytes = small.size_bytes] = small
                   /\ outcome.value.size_bytes = getsize(file)
              ELSE outcome.value = small

\* C3 as stated: a record is returned exactly when the path exists, its size is above
\* zero, its content decodes as UTF-8 and has a non-whitespace character.
C3_AsStated ==
    pc = "done" =>
        /\ IsRecord(outcome.value) <=> C3_StatedConditions(file)
        /\ C3_BlankAndLarge

\* C3, amended: a record is returned exactly when the path exists, its size is above
\* zero, the file can be opened and read, its content decodes as UTF-8 and has a
\* non-whitespace character; a zero-byte and a whitespace-only file both give None and
\* a file above 1 MiB is processed as a small one.
C3_RecordExactlyWhenReadable ==
    pc = "done" =>
        /\ IsRecord(outcome.value) <=> (C3_StatedConditions(file) /\ C3_Readable(file))
        /\ C3_BlankAndLarge

\* a file above 1 MiB with a subject line has given a record
C3_Witness ==
    /\ pc = "done"
    /\ getsize(file) > LargeFileBytes
    /\ IsRecord(outcome.value)
    /\ Contains(lower(file.content), SubjectTag)

\* the paths of the listed entries whose name ends in ".txt", in listing order
C4_ExpectedPaths ==
    LET kept == SelectSeq(fs.listing, LAMBDA n : n \in TxtNames)
    IN  [i \in 1..Len(kept) |-> <<"inbox", kept[i]>>]

\* what process_single_email returns for a path of the directory
C4_ResultOf(path) == process_single_email(fs.files[path[2]]).value

\* the loop has been left
C4_LoopOver ==
    \/ pc = "statistics"
    \/ pc = "process_emails" /\ idx = Len(email_files)
    \/ pc = "responded" /\ response = "No emails were successfully processed"

\* C4: the batch loop calls process_single_email once for each entry whose name ends
\* in ".txt", in listing order; the list holds exactly the non-absent results, in that
\* order; an absent result stops nothing; the success count is the length of the list.
C4_BatchLoop ==
    /\ Len(calls) <= Len(C4_ExpectedPaths)
    /\ calls = SubSeq(C4_ExpectedPaths, 1, Len(calls))
    /\ email_data = SelectSeq([i \in 1..Len(calls) |-> C4_ResultOf(calls[i])],
                              LAMBDA v : v # None)
    /\ processed_count = Len(email_data)
    /\ C4_LoopOver => calls = C4_ExpectedPaths

\* three files were processed, the first and the last came back absent, the one
\* between them is in the list, and the listing was not in alphabetical order
C4_Witness ==
    /\ pc = "statistics"
    /\ Len(calls) = 3
    /\ calls[1] = <<"inbox", "c.txt">>
    /\ C4_ResultOf(calls[1]) = None
    /\ C4_ResultOf(calls[3]) = None
    /\ email_data = <<C4_ResultOf(calls[2])>>
    /\ \E i \in 1..Len(fs.listing) : fs.listing[i] = "notes.md"

\* the subject C5 states for a text: the trimmed remainder of the first line that
\* starts with "subject:", when there is one; else the first non-blank trimmed line cut
\* to 50 characters; then the truncation to 60 characters and the ellipsis
C5_StatedSubject(text) ==
    LET lines   == split(strip(text))
        tagged  == {i \in 1..Len(lines) :
                      /\ Len(lines[i]) >= 8
                      /\ lower(SubSeq(lines[i], 1, 8)) = <<"s","u","b","j","e","c","t",":">>}
        trimmed == SelectSeq([i \in 1..Len(lines) |-> strip(lines[i])], LAMBDA l : l # <<>>)
        chosen  == IF tagged # {}
                   THEN strip(SubSeq(lines[CHOOSE i \in tagged : \A j \in tagged : i <= j],
                                     9, Len(lines[CHOOSE i \in tagged : \A j \in tagged : i <= j])))
                   ELSE SubSeq(trimmed[1], 1, IF Len(trimmed[1]) < 50 THEN Len(trimmed[1]) ELSE 50)
    IN  IF Len(chosen) > 60 THEN SubSeq(chosen, 1, 60) \o <<".", ".", ".">> ELSE chosen

\* C5: in every record the subject is the trimmed remainder of the first "subject:"
\* line whenever such a line exists, whatever the remainder is; otherwise the first
\* non-blank trimmed line cut to 50 characters; then truncated to 60 with the ellipsis.
C5_SubjectAsStated ==
    (pc = "done" /\ IsRecord(outcome.value)) =>
        outcome.value.subject = C5_StatedSubject(file.content)

\* the same, but for a subject line whose remainder is the text "No subject"
C5_SubjectOffSentinel ==
    (pc = "done" /\ IsRecord(outcome.value) /\ subject_line(file.content) # NoSubject) =>
        outcome.value.subject = C5_StatedSubject(file.content)

\* C6 as stated: the subject of every record is at most 60 characters long, the
\* ellipsis included.
C6_AtMostSixty ==
    (pc = "done" /\ IsRecord(outcome.value)) => Len(outcome.value.subject) <= 60

\* C6, amended: the subject of every record is at most 63 characters long: a subject
\* of more than 60 characters is cut to its first 60, and the three-character
\* ellipsis is added to those 60.
C6_AtMostSixtyThree ==
    (pc = "done" /\ IsRecord(outcome.value)) =>
        LET subject == outcome.value.subject
        IN  /\ Len(subject) <= 63
            /\ Len(subject) > 60 =>
                  /\ Len(subject) = 63
                  /\ SubSeq(subject, 61, 63) = <<".", ".", ".">>

\* a subject line with a remainder of more than 60 characters has given a record
C6_Witness ==
    /\ pc = "done"
    /\ IsRecord(outcome.value)
    /\ Len(subject_line(file.content)) > 60
    /\ Len(outcome.value.subject) = 63

\* the positions of the list that hold an email of category c
PositionsOf(c) == {i \in 1..Len(email_data) : email_data[i].category = c}

\* the categories that occur in the list
CategoriesOf == {email_data[i].category : i \in 1..Len(email_data)}

AllLabels == {"DOG_FOSTER", "CAT_FOSTER", "SMALL_ANIMAL", "VOLUNTEER", "EVENTS",
              "GENERAL_INQUIRY"}

\* the sum of f over the set S
RECURSIVE SumOver(_, _)
SumOver(f, S) ==
    IF S = {} THEN 0
    ELSE LET x == CHOOSE y \in S : TRUE IN f[x] + SumOver(f, S \ {x})

\* the keys of a dict are the set S, each held once
KeysAre(d, S) ==
    /\ DOMAIN d.val = S
    /\ {d.keys[i] : i \in 1..Len(d.keys)} = S
    /\ Len(d.keys) = Cardinality(S)

\* C7 as stated: on an empty list generate_statistics returns an explicitly-empty
\* result: a total count of zero, an empty category-count map, no most-common category.
C7_ExplicitlyEmpty ==
    (pc = "done" /\ email_data = <<>>) =>
        /\ "total_emails" \in DOMAIN stats /\ stats.total_emails = 0
        /\ "counts" \in DOMAIN stats /\ stats.counts.keys = <<>>
        /\ "most_common" \in DOMAIN stats => stats.most_common.category = "N/A"

\* C7, amended: on an empty list generate_statistics returns the empty dict {}: it
\* holds no total_emails, counts or most_common key (a reader gets zero and an empty map
\* only through .get defaults), and nothing is divided.
C7_EmptyDict ==
    (pc = "done" /\ email_data = <<>>) =>
        /\ stats # None
        /\ DOMAIN stats = {}

\* generate_statistics has returned for the empty list
C7_Witness ==
    /\ pc = "done"
    /\ email_data = <<>>
    /\ stats = <<>>

\* C8: for a non-empty list of N records the counts are the histogram of the
\* categories: a key for exactly the categories that occur, each count the number of
\* occurrences, the counts sum to N = total_emails, each percentage is 100 * count / N
\* and the percentages sum to 100.
C8_Histogram ==
    (pc = "done" /\ email_data # <<>>) =>
        LET N == Len(email_data)
        IN  /\ KeysAre(stats.counts, CategoriesOf)
            /\ \A c \in CategoriesOf :
                  /\ stats.counts.val[c] = Cardinality(PositionsOf(c))
                  /\ stats.counts.val[c] > 0
            /\ SumOver(stats.counts.val, CategoriesOf) = N
            /\ stats.total_emails = N
            /\ KeysAre(stats.percentages, CategoriesOf)
            /\ \A c \in CategoriesOf :
                  /\ stats.percentages.val[c].den = N
                  /\ stats.percentages.val[c].num = 100 * Cardinality(PositionsOf(c))
            /\ SumOver([c \in CategoriesOf |-> stats.percentages.val[c].num], CategoriesOf)
                  = 100 * N

\* the statistics of a list of four emails in three categories, one of them twice
C8_Witness ==
    /\ pc = "done"
    /\ Len(email_data) = 4
    /\ Cardinality(CategoriesOf) = 3
    /\ stats.counts.val[email_data[4].category] = 2
    /\ stats.total_emails = 4

\* the largest number of emails of one category
MaxOccurrences ==
    CHOOSE n \in 0..Len(email_data) :
        /\ \E c \in CategoriesOf : Cardinality(PositionsOf(c)) = n
        /\ \A c \in CategoriesOf : Cardinality(PositionsOf(c)) <= n

\* the position of the first email of category c
FirstPositionOf(c) == CHOOSE i \in PositionsOf(c) : \A j \in PositionsOf(c) : i <= j

\* the categories with the largest count
Leaders == {c \in CategoriesOf : Cardinality(PositionsOf(c)) = MaxOccurrences}

\* C9: for a non-empty list most_common names a category of maximal count, among
\* several the one whose first email is earliest in the list, with that category's
\* count and percentage.
C9_MostCommon ==
    (pc = "done" /\ email_data # <<>>) =>
        LET mc == stats.most_common
        IN  /\ mc.category \in Leaders
            /\ \A c \in Leaders : FirstPositionOf(mc.category) <= FirstPositionOf(c)
            /\ mc.count = MaxOccurrences
            /\ mc.percentage = Fraction(100 * MaxOccurrences, Len(email_data))

\* two categories share the largest count and the one met first, which is not the
\* first of them in label order, is the most common
C9_Witness ==
    /\ pc = "done"
    /\ Len(email_data) = 4
    /\ Leaders = {"DOG_FOSTER", "CAT_FOSTER"}
    /\ email_data[1].category = "DOG_FOSTER"
    /\ email_data[4].category = "CAT_FOSTER"
    /\ stats.most_common.category = "DOG_FOSTER"

\* the previews the statistics keep for a category: none when the dict has no entry
PreviewsOf(c) ==
    IF "previews" \in DOMAIN stats /\ Has(stats.previews, c)
    THEN stats.previews.val[c] ELSE <<>>

\* the subjects of the emails of category c, in list order
SubjectsOf(c) ==
    LET of_c == SelectSeq(email_data, LAMBDA e : e.category = c)
    IN  [i \in 1..Len(of_c) |-> of_c[i].subject]

\* C10: for every list and category the previews kept are the subjects of the first
\* min(3, count) emails of the category, in input order; never more than 3.
C10_FirstThreePreviews ==
    pc = "done" =>
        \A c \in AllLabels :
            LET subjects == SubjectsOf(c)
                n        == IF Len(subjects) < 3 THEN Len(subjects) ELSE 3
            IN  /\ PreviewsOf(c) = SubSeq(subjects, 1, n)
                /\ Len(PreviewsOf(c)) <= 3

\* four emails of one category, the fourth with a subject of its own, and the
\* previews are the first three
C10_Witness ==
    /\ pc = "done"
    /\ Len(email_data) = 4
    /\ Cardinality(CategoriesOf) = 1
    /\ email_data[4].subject # email_data[1].subject
    /\ email_data[1].subject # email_data[2].subject
    /\ Len(PreviewsOf(email_data[1].category)) = 3

\* the place of each category label in ascending order of the labels
LabelRank == [CAT_FOSTER |-> 1, DOG_FOSTER |-> 2, EVENTS |-> 3, GENERAL_INQUIRY |-> 4,
              SMALL_ANIMAL |-> 5, VOLUNTEER |-> 6]

\* C11: for a non-empty list and its statistics the rows of the report come in the
\* order header, summary table, detail table, notes; the summary table has one row per
\* category of the statistics counts, in ascending label order, then one TOTAL row; the
\* detail table has exactly one row per email of the list, in input order.
C11_ReportLayout ==
    (pc = "done" /\ email_data # <<>> /\ report.fault.kind = "none") =>
        LET rows == report.file.rows
            cats == DOMAIN stats.counts.val
            k    == Cardinality(cats)
            n    == Len(email_data)
        IN  /\ report.file.exists
            /\ Len(rows) = 16 + k + n
            /\ rows[1] = << [str |-> "EMAIL CATEGORIZATION REPORT"] >>
            /\ rows[5] = <<>>
            /\ rows[6] = << [str |-> "SUMMARY STATISTICS"] >>
            /\ \A j \in 1..k :
                  /\ Len(rows[7 + j]) = 3
                  /\ "str" \in DOMAIN rows[7 + j][1]
                  /\ rows[7 + j][1].str \in cats
                  /\ rows[7 + j][2] = [int |-> stats.counts.val[rows[7 + j][1].str]]
            /\ \A i, j \in 1..k :
                  i < j => LabelRank[rows[7 + i][1].str] < LabelRank[rows[7 + j][1].str]
            /\ rows[8 + k][1] = [str |-> "TOTAL"]
            /\ rows[8 + k][2] = [int |-> n]
            /\ rows[9 + k] = <<>>
            /\ rows[10 + k] = << [str |-> "DETAILED EMAIL LIST"] >>
            /\ \A i \in 1..n :
                  /\ Len(rows[11 + k + i]) = 5
                  /\ rows[11 + k + i][1] = [str |-> email_data[i].filename]
                  /\ rows[11 + k + i][2] = [str |-> email_data[i].category]
                  /\ rows[11 + k + i][3] = [chars |-> email_data[i].subject]
                  /\ rows[11 + k + i][5] = [path |-> email_data[i].filepath]
            /\ rows[12 + k + n] = <<>>
            /\ rows[13 + k + n] = << [str |-> "PROCESSING NOTES"] >>

\* the report of three emails has been written: the first is a dog email, the second a
\* cat email of another file, and the cat row comes first in the summary table
C11_Witness ==
    /\ pc = "done"
    /\ report.fault.kind = "none"
    /\ Len(email_data) = 3
    /\ email_data[1].category = "DOG_FOSTER"
    /\ email_data[2].category = "CAT_FOSTER"
    /\ email_data[1].filename # email_data[2].filename
    /\ report.file.rows[8][1] = [str |-> "CAT_FOSTER"]
    /\ report.file.rows[9][1] = [str |-> "DOG_FOSTER"]
    /\ report.file.rows[14][1] = [str |-> email_data[1].filename]

\* the report step has run and its write has failed
C12_ReportFailed ==
    /\ form.report
    /\ report.fault.kind # "none"
    /\ report.end.kind # "pending"

\* C12: a failure while writing the report is caught inside save_report_to_csv and
\* never propagates: the call returns, the error is logged, the run goes on to its
\* answer, and an organization step that was requested still executes after the failed
\* report step.
C12_ReportFailureContained ==
    /\ C12_ReportFailed =>
          /\ report.end.kind = "return"
          /\ \E k \in 1..Len(report.end.log) : report.end.log[k][1] = "error"
          /\ pc \in {"organize_step", "complete", "responded"}
    /\ pc = "responded" => response = "Processing complete"
    /\ (C12_ReportFailed /\ form.organize /\ pc \in {"complete", "responded"}) =>
          /\ org.end.kind = "return"
          /\ org.end.value = organize_emails(email_data, org.output_dir, org.before,
                                             superuser).end.value

\* the destination of the report could not be opened, and the organizer has copied two
\* files after that
C12_Witness ==
    /\ pc = "responded"
    /\ form.report /\ form.organize
    /\ report.fault.kind = "open"
    /\ ~report.file.exists
    /\ org.end.value = [int |-> 2]
    /\ disk[<<"out", "DOG_FOSTER", "a.txt">>].kind = "file"

\* the loop of organize_emails is at an email
C13_InLoop == pc = "organize_loop" /\ org.i < Len(email_data)

\* the email the loop takes next, and where its copy goes
C13_Email == email_data[org.i + 1]
C13_Dest  == <<"out", C13_Email.category, C13_Email.filename>>

\* the source path of that email names nothing
C13_SourceMissing == disk[C13_Email.filepath].kind = "absent"

\* the source is there, the category directory is there or can be made, and the copy
\* fails: the destination is the source itself, or a read-only file the process may
\* not write
C13_CopyFails ==
    /\ ~C13_SourceMissing
    /\ disk[<<"out", C13_Email.category>>].kind # "file"
    /\ \/ C13_Dest = C13_Email.filepath
       \/ disk[C13_Dest].kind = "file" /\ disk[C13_Dest].mode = "ro" /\ ~superuser

\* the summary file holds the summary of this list with these counts
C13_SummaryWritten ==
    LET entry == disk[<<"out", "ORGANIZATION_SUMMARY.txt">>]
    IN  /\ entry.kind = "file"
        /\ "summary" \in DOMAIN entry.data
        /\ entry.data.summary.source = Len(email_data)
        /\ entry.data.summary.organized = org.organized_count
        /\ entry.data.summary.skipped = org.skipped_count

\* the summary path is a directory, or a read-only file the process may not write
C13_SummaryBlocked ==
    LET entry == disk[<<"out", "ORGANIZATION_SUMMARY.txt">>]
    IN  \/ entry.kind = "dir"
        \/ entry.kind = "file" /\ entry.mode = "ro" /\ ~superuser

\* C13: in organize_emails an email whose source path does not exist adds one to the
\* skipped count and leaves the organized count as it is, and a copy failure for one
\* email adds one to the skipped count; in both cases the loop goes on with the next
\* email, and once the loop is through the list the summary file is written (unless the
\* summary path itself cannot be written).
C13_SkipAndGoOn ==
    /\ [][(C13_InLoop /\ (C13_SourceMissing \/ C13_CopyFails)) =>
             /\ org'.skipped_count = org.skipped_count + 1
             /\ org'.organized_count = org.organized_count
             /\ org'.i = org.i + 1
             /\ pc' = "organize_loop"]_vars
    /\ []((pc = "organized" /\ email_data # <<>> /\ org.i = Len(email_data)) =>
             (C13_SummaryWritten \/ C13_SummaryBlocked))

\* a run of three emails has ended: the source of the first was gone, the copy of the
\* second failed on a stale read-only file, the third was copied, and the summary holds
\* one organized and two skipped
C13_Witness ==
    /\ pc = "organized"
    /\ org.run = 1
    /\ Len(email_data) = 3
    /\ disk[email_data[1].filepath].kind = "absent"
    /\ disk[email_data[2].filepath].kind = "file"
    /\ disk[<<"out", email_data[2].category, email_data[2].filename>>].data = Stale
    /\ disk[<<"out", email_data[3].category, email_data[3].filename>>].data
          = disk[email_data[3].filepath].data
    /\ org.organized_count = 1
    /\ org.skipped_count = 2
    /\ C13_SummaryWritten

\* an entry of the file system is as it was before the first call
C14_Unchanged(path) == disk[path] = org.before[path]

\* C14: organize_emails never changes or removes an original: every source file named
\* by an email of the list exists with the same content after the call as before it;
\* only entries under the output root are created or overwritten.
C14_OriginalsKept ==
    pc = "organized" =>
        /\ \A i \in 1..Len(email_data) :
              org.before[email_data[i].filepath].kind = "file" =>
                  C14_Unchanged(email_data[i].filepath)
        /\ \A path \in DOMAIN disk :
              SubSeq(path, 1, 1) # <<"out">> => C14_Unchanged(path)

\* the same for the originals that are not under the output root, and for every other
\* entry outside it
C14_OriginalsOutsideRootKept ==
    pc = "organized" =>
        \A path \in DOMAIN disk : SubSeq(path, 1, 1) # <<"out">> => C14_Unchanged(path)

\* the list is valid: the source of every email was there before the first call
C15_ValidList ==
    \A i \in 1..Len(email_data) : org.before[email_data[i].filepath].kind = "file"

\* the files of a file system
C15_FilesOf(d) == {path \in DOMAIN d : d[path].kind = "file"}

\* the second call has the counts and the files of the first
C15_SameAsFirst ==
    /\ org.organized_count = org.first.organized_count
    /\ org.skipped_count = org.first.skipped_count
    /\ org.end.value = org.first.end.value
    /\ C15_FilesOf(disk) = C15_FilesOf(org.first.disk)

\* C15: running organize_emails twice in a row with the same valid list and the same
\* output root gives the second run the organized and skipped counts of the first, and
\* leaves the same set of copies and sidecars under the output root: existing ones are
\* overwritten, none is duplicated or versioned.
C15_SecondRunSame ==
    (pc = "organized" /\ org.run = 2 /\ C15_ValidList) => C15_SameAsFirst

\* the same when no source is read-only or the process is the superuser
C15_SecondRunSameWritable ==
    (/\ pc = "organized" /\ org.run = 2 /\ C15_ValidList
     /\ \/ superuser
        \/ \A i \in 1..Len(email_data) : org.before[email_data[i].filepath].mode = "rw")
    => C15_SameAsFirst

\* C16 as stated: organize_emails returns to its caller both the organized count and
\* the skipped count of the run, for every list, the empty list and a run in which every
\* email is skipped included.
C16_ReturnsBothCounts ==
    pc = "organized" =>
        /\ org.end.kind = "return"
        /\ DOMAIN org.end.value = {"organized_count", "skipped_count"}
        /\ org.end.value.organized_count = org.organized_count
        /\ org.end.value.skipped_count = org.skipped_count

\* the call ended in its outer except clause
C16_Failed == \E k \in 1..Len(org.end.log) : org.end.log[k][1] = "error"

\* C16, amended: organize_emails returns to its caller the organized count alone, as an
\* integer; the skipped count is not returned (it goes to the summary file and the
\* console).  For the empty list the call returns None, for a run in which every email
\* is skipped it returns 0, and it returns 0 as well when a directory or the summary
\* cannot be written.
C16_ReturnsOrganizedOnly ==
    pc = "organized" =>
        /\ org.end.kind = "return"
        /\ email_data = <<>> => org.end.value = None
        /\ email_data # <<>> =>
              /\ DOMAIN org.end.value = {"int"}
              /\ org.end.value.int = IF C16_Failed THEN 0 ELSE org.organized_count
              /\ ~C16_Failed => C13_SummaryWritten
        /\ (email_data # <<>> /\ org.skipped_count = Len(email_data)
              /\ org.organized_count = 0) => org.end.value = [int |-> 0]

\* a run of three emails has returned 2, and it skipped the third
C16_Witness ==
    /\ pc = "organized"
    /\ org.run = 1
    /\ Len(email_data) = 3
    /\ org.organized_count = 2
    /\ org.skipped_count = 1
    /\ disk[email_data[3].filepath].kind = "absent"
    /\ org.end.value = [int |-> 2]

\* C20: when organize_emails writes its summary, organized_count + skipped_count is the
\* number of emails of the list: every email is counted once, as organized or as
\* skipped, also when the copy of a file succeeds and the write of its sidecar fails.
C20_EveryEmailCountedOnce ==
    /\ pc = "organize_loop" => org.organized_count + org.skipped_count = org.i
    /\ (pc = "organized" /\ email_data # <<>> /\ C13_SummaryWritten) =>
          LET written == disk[<<"out", "ORGANIZATION_SUMMARY.txt">>].data.summary
          IN  written.organized + written.skipped = written.source

\* the same for the runs in which no sidecar write fails after its copy
C20_CountedOnceButForSidecars ==
    (pc = "organize_loop"
        /\ \A i \in 1..org.i :
              LET meta == disk[<<"out", email_data[i].category,
                                 NameOf(NameChars(email_data[i].filename) \o MetaTxt)>>]
              IN  meta.kind # "dir" /\ (meta.kind = "file" => "meta" \in DOMAIN meta.data))
    => org.organized_count + org.skipped_count = org.i

\* C17 as stated: a run of main that is not a test run takes the input directory from
\* its options, and by its end it has processed files exactly when the self-tests
\* passed, the input directory exists and it lists an entry ending in ".txt".
C17_ProcessesExactlyWhen ==
    /\ pc = "email_dir" => getattr(args, "input_dir").kind = "return"
    /\ (pc = "exited" /\ ~args.test) =>
          ((calls # <<>>) <=>
              (run.run_tests = "True" /\ fs.exists /\ txt_paths(fs.listing) # <<>>))

\* what the code does: every run that is not a test run and has passed the self-tests
\* ends with an AttributeError, whatever the input directory, with no file processed
\* and no output written
C17_EndsAtInputDir ==
    (pc = "exited" /\ ~args.test) =>
        /\ run.run_tests = "True"
        /\ run.end = Raise("AttributeError", <<>>)
        /\ calls = <<>> /\ email_data = <<>> /\ stats = None
        /\ IdleReport /\ IdleOrganize

\* a run with a directory that holds a valid ".txt" file has ended
C17_EndedWithFiles ==
    /\ pc = "exited"
    /\ ~args.test
    /\ fs.exists
    /\ txt_paths(fs.listing) # <<>>

\* C19: categorize_email gives every text of the self-test table its expected category,
\* so run_tests returns True and no run stops at the self-test step; the empty string
\* and "What time do you open?" are GENERAL_INQUIRY.
C19_SelfTestsPass ==
    /\ \A k \in 1..Len(run.results) : run.results[k] = SelfTests[k].expected
    /\ run.passed = run.i
    /\ run.run_tests \in {"pending", "True"}
    /\ (~args.test /\ run.run_tests # "pending") =>
          /\ pc \in {"email_dir", "exited"}
          /\ \A k \in 1..Len(run.printed) :
                run.printed[k] # "Tests failed! Fix logic before continuing."
    /\ run.i = Len(SelfTests) =>
          /\ SelfTests[run.i].text = <<"W","h","a","t"," ","t","i","m","e"," ","d","o"," ",
                                       "y","o","u"," ","o","p","e","n","?">>
          /\ run.results[run.i] = "GENERAL_INQUIRY"
    /\ categorize_email(<<>>) = "GENERAL_INQUIRY"

\* a run that is not a test run has passed its six self-tests and gone on
C19_Witness ==
    /\ pc = "email_dir"
    /\ ~args.test
    /\ run.i = 6
    /\ run.passed = 6
    /\ run.run_tests = "True"

\* the files of the batch that come back absent
C18_AbsentFiles ==
    {i \in 1..Len(email_files) :
        ~Truthy(process_single_email(fs.files[basename(email_files[i])]).value)}

\* C18 as stated: with at least one matching file the run goes on to the statistics
\* step whatever the number of absent files, so a run ends before the statistics only
\* for a missing directory or a directory without a matching file.
C18_OnlyInputSetEndsRun ==
    pc = "responded" => response \in {"Directory not found", "No .txt files found"}

\* C18, amended: absent files never cut the batch loop short: in a run that has reached
\* the loop every matching file is tried, whatever the number that came back absent.
\* After the loop the run goes on to the statistics step exactly when at least one file
\* gave a record; when every file came back absent the run ends there with "No emails
\* were successfully processed", before statistics, report and organization.
C18_AbsentFilesNeverCutLoop ==
    /\ pc \in {"statistics", "responded"} /\ email_files # <<>> =>
          /\ idx = Len(email_files)
          /\ calls = email_files
          /\ Len(email_data) = Len(email_files) - Cardinality(C18_AbsentFiles)
    /\ pc = "statistics" =>
          /\ Cardinality(C18_AbsentFiles) < Len(email_files)
          /\ stats = generate_statistics(email_data)
          /\ response = "none"
    /\ pc = "responded" /\ email_files # <<>> =>
          /\ Cardinality(C18_AbsentFiles) = Len(email_files)
          /\ response = "No emails were successfully processed"
          /\ stats = None
          /\ IdleReport /\ IdleOrganize

\* a batch of three files has reached the statistics with one record, two files absent
C18_Witness ==
    /\ pc = "statistics"
    /\ Len(email_files) = 3
    /\ Cardinality(C18_AbsentFiles) = 2
    /\ Len(email_data) = 1

\* a batch of two files, both absent, has ended after its loop
C18_AllAbsent ==
    /\ pc = "responded"
    /\ Len(email_files) = 2
    /\ Cardinality(C18_AbsentFiles) = 2
    /\ calls = email_files

\* the first run started with nothing under the output root
C21_RootWasEmpty ==
    /\ org.before[OutputRoot].kind \in {"absent", "dir"}
    /\ \A p \in Paths : (IsPrefix(OutputRoot, p) /\ p # OutputRoot) =>
                            org.before[p].kind = "absent"

\* the category subdirectories under the output root, and the emails copied into one
C21_CategoryDirs == {p \in DirPaths : Len(p) = 2 /\ IsPrefix(OutputRoot, p)
                                       /\ disk[p].kind = "dir"}
C21_CopiedInto(c) == {n \in OrganizeNames : disk[<<"out", c, n>>].kind = "file"}

\* the first run has ended with its summary written
C21_FirstRunDone ==
    /\ pc = "organized"
    /\ org.run = 1
    /\ email_data # <<>>
    /\ C21_RootWasEmpty
    /\ C13_SummaryWritten

\* C21: after a run of organize_emails that started with an empty output root, the
\* "Categories created" number of ORGANIZATION_SUMMARY.txt is the number of category
\* subdirectories under the output root, and each count of the breakdown is the number
\* of emails copied into that subdirectory, also when emails were skipped.
C21_SummaryAgreesWithTree ==
    C21_FirstRunDone =>
        LET written == disk[<<"out", "ORGANIZATION_SUMMARY.txt">>].data.summary
        IN  /\ written.categories_created = Cardinality(C21_CategoryDirs)
            /\ \A k \in 1..Len(written.breakdown) :
                  written.breakdown[k][2] =
                      Cardinality(C21_CopiedInto(written.breakdown[k][1]))

\* the same for the runs in which the source of every email is there
C21_AgreesWhenSourcesExist ==
    (C21_FirstRunDone
        /\ \A i \in 1..Len(email_data) : org.before[email_data[i].filepath].kind = "file")
    => LET written == disk[<<"out", "ORGANIZATION_SUMMARY.txt">>].data.summary
       IN  /\ written.categories_created = Cardinality(C21_CategoryDirs)
           /\ \A k \in 1..Len(written.breakdown) :
                 written.breakdown[k][2] =
                     Cardinality(C21_CopiedInto(written.breakdown[k][1]))

\* a run of two emails has skipped the one whose source is gone: the summary counts two
\* categories, the tree holds one
C21_SkippedCategory ==
    /\ C21_FirstRunDone
    /\ Len(email_data) = 2
    /\ org.skipped_count = 1
    /\ disk[<<"out", "ORGANIZATION_SUMMARY.txt">>].data.summary.categories_created = 2
    /\ Cardinality(C21_CategoryDirs) = 1

====
